---------------------------- MODULE Spec2Model ----------------------------
(***************************************************************************)
(* A model of the IAESTE student-review scraper (src/src/index.ts) and of  *)
(* its server (src/src/serve.ts).                                          *)
(*                                                                         *)
(* Three specifications share the module:                                  *)
(*   Spec       the aggregation getDataDump(): one action per resumption   *)
(*              of an async task (the code between two awaits), the        *)
(*              promise pools included;                                    *)
(*   SpecFetch  calls of urlToDocument(url, cache): attempts, retries,     *)
(*              back-off waits and the cache;                              *)
(*   SpecPool   the promise pools of getDataDump() with their real widths, *)
(*              the tasks counted instead of named.                        *)
(*                                                                         *)
(* JavaScript's undefined is modelled by the empty set and a defined value *)
(* v by {v}; a Map is a function on the finite set of its keys.            *)
(***************************************************************************)
EXTENDS Integers, Sequences, FiniteSets, Bags, TLC

\* ------------------------------------------------------------ constants
MAX_CONCURRENT_REQUESTS == 32
MAX_CONCURRENT_COUNTRIES == 4
\* urlToDocument's default for its parameter retries
DEFAULT_RETRIES == 5
\* the numerator of the back-off wait, in milliseconds
BACKOFF_MS == 50000
\* getReviewContent reads the body blocks 0 .. 21
NUM_BODY_BLOCKS == 22

\* --------------------------------------------------------------- bounds
\* SpecFetch: the urls, the documents the site may serve, the calls in a row
NumUrls == 2
NumDocs == 2
MaxCalls == 2
\* SpecPool: the fields, the countries, the entries of one country's listing
MaxPoolFields == 33
MaxPoolCountries == 5
MaxPoolEntries == 9
\* SpecPool: the calls of urlToDocument that go into delay() during one run
MaxWaits == 1
\* Spec: the site
NumFields == 2
NumReviews == 2
MaxCategories == 2
\* a detail page has NUM_BODY_BLOCKS - MaxMissingBlocks .. NUM_BODY_BLOCKS blocks
MaxMissingBlocks == 2
\* SpecServe: the calls of fetchData, the requests answered
MaxScrapes == 3
MaxRequests == 3
\* SpecParse: the anchors of a field's page, the elements of the base page,
\* the body rows of a listing table
MaxAnchors == 2
MaxElements == 3
MaxRows == 2

VARIABLES
  \* ---- Spec: getDataDump()
  site,                   \* what the scraped site serves (fixed during a run)
  pc,                     \* where getDataDump() itself is
  fields,                 \* baseCategories.fields (ids)
  countries,              \* countryCategories.flatMap(category => category.countries) (ids)
  fieldPc,                \* per item of the field pool: where its task is
  fieldCache,             \* per field task: the keys of its cache
  fieldGets,              \* history, per field task: the successful GETs of each url
  fieldLang,              \* per field task: the language of the listing its entry read awaits
  fieldReviews,           \* per field task: the entries getReviewEntriesByField returned
  specializations,        \* the array specializations
  reviewIdToFieldId,      \* the Map reviewIdToFieldId
  specializationNameToId, \* the Map specializationNameToId
  countryPc,              \* per item of the country pool: where its task is
  reviewEntries,          \* per country task: the entries of its listing
  entryPc,                \* per country task, per entry: where getReviewContent is
  reviewData,             \* per country task: reviewData.results, in completion order
  reviews,                \* the array reviews
  fatal,                  \* history: a fetch failed fatally inside a pooled task
  tablesRead,             \* history: a country task has read one of the two tables
  \* ---- SpecFetch: calls of urlToDocument(url, cache)
  fState,                 \* "idle", "requesting", "reading", "waiting", "returned" or "threw"
  fUrl,                   \* the call's url
  fUseCache,              \* whether the call was given the cache
  fRetries,               \* the parameter retries of the running (recursive) call
  fCache,                 \* the Map cache: url -> document
  fResult,                \* what the last finished call returned (Undefined: nothing)
  fResponses,             \* history: the responses the call has received
  fAttempts,              \* history: the GET requests the call has issued
  fWaited,                \* history: the milliseconds the call has spent in delay()
  fCalls,                 \* history: the calls made so far
  \* ---- SpecPool: the pools of getDataDump(), the tasks counted
  pPhase,                 \* "base", "fields", "countries", "returned" or "rejected"
  pBaseAt,                \* getBaseCategories(): the page it awaits, waiting or not
  pFieldsQueued,          \* the fields whose task has not started
  pFieldsAt,              \* per listing of a field task: the tasks awaiting it
  pFieldsWaiting,         \* per listing: those of them in delay() before a retry
  pCountriesQueued,       \* the countries whose task has not started
  pCountriesAt,           \* the bag of the running country tasks
  pStartedAfterFailure,   \* history: a pool started a queued item when a task had failed
  pWaits,                 \* history: the delays started so far
  \* ---- SpecServe: serve.ts
  data,                   \* the variable data (Undefined until a getDataDump() resolves)
  sUp,                    \* the process is running
  sStarted,               \* the calls of fetchData so far
  sRunning,               \* the calls of getDataDump() that have not settled
  sCompleted,             \* history: the calls of getDataDump() that have resolved
  sLastGood,              \* history: the last call that resolved with no fetch lost (0: none)
  sSending,               \* the responses handed to respondWith() and not yet settled
  sResponses,             \* history: the responses sent, oldest first
  \* ---- SpecParse: the readers of one page
  page,                   \* the documents a reader is given (English and Czech)
  parsed                  \* what the reader returned (Undefined: not run)

varsDump == <<site, pc, fields, countries, fieldPc, fieldCache, fieldGets, fieldLang,
              fieldReviews, specializations, reviewIdToFieldId, specializationNameToId,
              countryPc, reviewEntries, entryPc, reviewData, reviews, fatal,
              tablesRead>>

varsFetch == <<fState, fUrl, fUseCache, fRetries, fCache, fResult, fResponses,
               fAttempts, fWaited, fCalls>>

varsPool == <<pPhase, pBaseAt, pFieldsQueued, pFieldsAt, pFieldsWaiting,
              pCountriesQueued, pCountriesAt, pStartedAfterFailure, pWaits>>

varsServe == <<data, sUp, sStarted, sRunning, sCompleted, sLastGood, sSending,
               sResponses>>

varsParse == <<page, parsed>>

vars == <<varsDump, varsFetch, varsPool, varsServe, varsParse>>

\* ----------------------------------------------------- JavaScript values
Undefined == {}
Some(v) == {v}
IsDefined(x) == x # {}

EmptyMap == [k \in {} |-> 0]
MapSet(m, k, v) == [x \in (DOMAIN m) \cup {k} |-> IF x = k THEN v ELSE m[x]]
MapGet(m, k) == IF k \in DOMAIN m THEN Some(m[k]) ELSE Undefined

\* arr[i] of JavaScript (indices from 0)
At(arr, i) == IF i >= 0 /\ i < Len(arr) THEN Some(arr[i + 1]) ELSE Undefined

RECURSIVE SetToSeq(_)
SetToSeq(S) ==
  IF S = {} THEN <<>>
  ELSE LET m == CHOOSE x \in S : \A y \in S : x <= y
       IN <<m>> \o SetToSeq(S \ {m})

RECURSIVE Flatten(_)
Flatten(ss) == IF ss = <<>> THEN <<>> ELSE Head(ss) \o Flatten(Tail(ss))


\* ------------------------------------------------------------- the site
\* csItems.get(id) ?? ""
OrEmpty(x) == IF x = Undefined THEN "" ELSE CHOOSE v \in x : TRUE

FieldIds == 1 .. NumFields
CountryIds == 1 .. MaxCategories
ReviewIds == 1 .. NumReviews
BodyCounts == (NUM_BODY_BLOCKS - MaxMissingBlocks) .. NUM_BODY_BLOCKS
\* the names the site gives its specializations
Names == <<"Informatika", "Fyzika", "Chemie", "Matematika">>
NameOf(f) == Names[((f - 1) % Len(Names)) + 1]

\* The base page: one to MaxCategories categories of one country each, the
\* countries all different, or two categories that both hold country 1.
CategoryLayouts ==
  { [i \in 1 .. k |-> <<i>>] : k \in 1 .. MaxCategories } \cup { <<<<1>>, <<1>>>> }

\* A site: field f has one specialization, of id f; review r is listed under the
\* field listedIn[r] (0: under none) and under country 1, and its detail page
\* names the specialization of its field ("" without a field); every detail
\* page has the same number of body blocks. The Czech page of field f names
\* the specialization csName[f], or lacks its anchor (csName[f] = Undefined).
SiteOf(layout, listedIn, specName, csName, nBodies) ==
  [ categories |-> layout,
    fields |-> SetToSeq(FieldIds),
    fieldEntries |-> [f \in FieldIds |-> SetToSeq({r \in ReviewIds : listedIn[r] = f})],
    fieldSpecs |-> [f \in FieldIds |->
                      << [id |-> f, name |-> [en |-> specName[f], cs |-> OrEmpty(csName[f])]] >>],
    countryEntries |-> [c \in CountryIds |-> IF c = 1 THEN SetToSeq(ReviewIds) ELSE <<>>],
    specializationName |-> [r \in ReviewIds |->
                      IF listedIn[r] = 0 THEN "" ELSE specName[listedIn[r]]],
    bodies |-> nBodies ]

\* The well-formed site: the reviews dealt to the fields in turn, every
\* specialization with a name of its own, every detail page complete.
EveryReviewListed == [r \in ReviewIds |-> ((r - 1) % NumFields) + 1]
EveryNameOnce == [f \in FieldIds |-> NameOf(f)]
SameInCzech(specName) == [f \in FieldIds |-> Some(specName[f])]
NoneInCzech == [f \in FieldIds |-> Undefined]

\* What a site may have instead: review 1 under no field; one name for the
\* specializations of all fields; review 1 under no field and no Czech name
\* for any specialization; detail pages short of some body blocks.
SiteVariants ==
  { [listedIn |-> EveryReviewListed, specName |-> EveryNameOnce,
     csName |-> SameInCzech(EveryNameOnce), bodies |-> NUM_BODY_BLOCKS],
    [listedIn |-> [EveryReviewListed EXCEPT ![1] = 0], specName |-> EveryNameOnce,
     csName |-> SameInCzech(EveryNameOnce), bodies |-> NUM_BODY_BLOCKS],
    [listedIn |-> EveryReviewListed, specName |-> [f \in FieldIds |-> NameOf(1)],
     csName |-> SameInCzech([f \in FieldIds |-> NameOf(1)]), bodies |-> NUM_BODY_BLOCKS],
    [listedIn |-> [EveryReviewListed EXCEPT ![1] = 0], specName |-> EveryNameOnce,
     csName |-> NoneInCzech, bodies |-> NUM_BODY_BLOCKS] }
  \cup { [listedIn |-> EveryReviewListed, specName |-> EveryNameOnce,
          csName |-> SameInCzech(EveryNameOnce), bodies |-> n] :
           n \in BodyCounts }

Sites ==
  { SiteOf(layout, v.listedIn, v.specName, v.csName, v.bodies) :
      layout \in CategoryLayouts, v \in SiteVariants }

\* ------------------------------------------------------------ the URLs
LANG_ENGLISH == "en_us"
LANG_CZECH == "cs_cz"
FieldUrl(fieldId, lang) == <<"faculty", fieldId, lang>>
BothLanguages(fieldId) == { FieldUrl(fieldId, LANG_ENGLISH), FieldUrl(fieldId, LANG_CZECH) }

\* a task whose cache keeps nothing
CacheNotKept(cache, urls) == cache
\* cache?.set(url, doc) of every document the read has fetched
CacheAfterRead(cache, urls) == cache \cup urls

\* if (cachedDoc) return cachedDoc: the urls a read requests from the network
Requested(urls, cache) == urls \ cache

\* the successful GETs counted, one more for each of urls
CountGets(gets, urls) ==
  [u \in (DOMAIN gets) \cup urls |->
     (IF u \in DOMAIN gets THEN gets[u] ELSE 0) + (IF u \in urls THEN 1 ELSE 0)]

\* What a read of both documents that failed for good has fetched before: the
\* English document is awaited first, so either it failed, or it was fetched
\* and the Czech failed.
FetchedBeforeFailure(fieldId, cache) ==
  { {}, Requested({FieldUrl(fieldId, LANG_ENGLISH)}, cache) }

\* What a read of the documents urls through a cache can come to: a document
\* that is in the cache is returned without a request, any other is requested
\* and the request may fail for good (SpecFetch has the attempts one by one).
FetchOutcomes(urls, cache) == IF urls \subseteq cache THEN {"ok"} ELSE {"ok", "fatal"}

\* ------------------------------------------------------ the promise pool
\* PromisePool.withConcurrency(limit).for(items).process(f) starts the first
\* limit items at once ...
PoolStart(n, limit, started) ==
  [i \in 1 .. n |-> IF i <= limit THEN started ELSE "queued"]

\* ... and starts the next queued item when a task has settled, whether that
\* task returned or threw: a thrown error goes into the pool's errors.
PoolStartNext(pcs, started) ==
  IF \E i \in DOMAIN pcs : pcs[i] = "queued"
  THEN LET i == CHOOSE j \in DOMAIN pcs :
                  pcs[j] = "queued" /\ \A k \in DOMAIN pcs : pcs[k] = "queued" => j <= k
       IN [pcs EXCEPT ![i] = started]
  ELSE pcs

Settled(pcs) == \A i \in DOMAIN pcs : pcs[i] \in {"done", "failed"}

\* ---------------------------------------------------- getReviewContent
\* The parse of a detail page with n body blocks whose info table names the
\* specialization name: bodiesTexts[20].split throws when block 20 is absent,
\* every other block is read by its index.
getReviewContent(id, name, n) ==
  LET bodiesTexts == [k \in 1 .. n |-> "text"]
  IN IF ~IsDefined(At(bodiesTexts, 20))
     THEN [threw |-> TRUE]
     ELSE [threw |-> FALSE,
           id |-> id,
           specializationName |-> name,
           otherWebsites |-> At(bodiesTexts, 20),
           texts |-> [k \in (0 .. 19) \cup {21} |-> At(bodiesTexts, k)]]


\* -------------------------------------------------------- urlToDocument
Urls == 1 .. NumUrls
Docs == 1 .. NumDocs
\* the statuses a GET is answered with
Statuses == {200, 503}
\* what parseDom makes of a body that was read: a document, or null (Undefined)
Bodies == {Undefined} \cup {Some(d) : d \in Docs}
\* a response as fResponses records it: its status and, once its body has been
\* read, what parseDom made of it (the body of a response that is not ok is
\* never read)
Responses ==
  { r \in [status : Statuses, doc : Bodies] :
      r.status \notin 200 .. 299 => r.doc = Undefined }
\* response.ok
Ok(response) == response.status \in 200 .. 299

\* a / b <= c / d for positive b, d, without a product that could overflow
RECURSIVE FracLE(_, _, _, _)
FracLE(a, b, c, d) ==
  LET qa == a \div b
      qc == c \div d
      ra == a % b
      rc == c % d
  IN IF qa # qc THEN qa < qc
     ELSE IF ra = 0 THEN TRUE
     ELSE IF rc = 0 THEN FALSE
     ELSE FracLE(d, rc, b, ra)

\* ms <= 50_000 / retries ** 1.5, that is ms^2 * retries^3 <= 50_000^2
WithinBackoff(ms, retries) ==
  ms = 0 \/ FracLE(ms * retries * retries * retries, BACKOFF_MS, BACKOFF_MS, ms)

RECURSIVE BackoffSearch(_, _, _)
BackoffSearch(lo, hi, retries) ==
  IF lo = hi THEN lo
  ELSE LET mid == (lo + hi + 1) \div 2
       IN IF WithinBackoff(mid, retries)
          THEN BackoffSearch(mid, hi, retries)
          ELSE BackoffSearch(lo, mid - 1, retries)

\* a retry that waits the whole 50 s whatever retries is
DelayFlat(retries) == BACKOFF_MS
\* the whole milliseconds of delay(50_000 / retries ** 1.5)
Delay(retries) == BackoffSearch(0, BACKOFF_MS, retries)

\* a retry() that gives up one attempt later
RetriesExhaustedLate(retries) == retries < 0
\* if (retries <= 0) throw Error(`Failed to fetch URL: ${url}`)
RetriesExhausted(retries) == retries <= 0

\* a urlToDocument that never stores the document
CacheSetNever(cache, useCache, url, doc) == cache
\* if (cache) cache.set(url, doc)
CacheSet(cache, useCache, url, doc) == IF useCache THEN MapSet(cache, url, doc) ELSE cache

\* a urlToDocument that empties the cache when an attempt fails
CacheClearedOnFailure(cache, useCache, url) == EmptyMap
\* retry(): nothing is written to the cache
CacheAfterFailure(cache, useCache, url) == cache

\* const cachedDoc = cache?.get(url)
CacheGet(cache, useCache, url) == IF useCache THEN MapGet(cache, url) ELSE Undefined

IdleFetch ==
  /\ fState = "idle"
  /\ fUrl = 0
  /\ fUseCache = FALSE
  /\ fRetries = 0
  /\ fCache = EmptyMap
  /\ fResult = Undefined
  /\ fResponses = <<>>
  /\ fAttempts = 0
  /\ fWaited = 0
  /\ fCalls = 0

\* a caller calls urlToDocument(url) or urlToDocument(url, cache); up to the
\* first await the cached document is returned, or the GET is issued
FetchCall(url, useCache) ==
  /\ fState \in {"idle", "returned", "threw"}
  /\ fCalls < MaxCalls
  /\ fCalls' = fCalls + 1
  /\ fResponses' = <<>>
  /\ fWaited' = 0
  /\ fAttempts' = IF IsDefined(CacheGet(fCache, useCache, url)) THEN 0 ELSE 1
  /\ fUrl' = url
  /\ fUseCache' = useCache
  /\ fRetries' = DEFAULT_RETRIES
  /\ IF IsDefined(CacheGet(fCache, useCache, url))
     THEN /\ fState' = "returned"
          /\ fResult' = CacheGet(fCache, useCache, url)
     ELSE /\ fState' = "requesting"
          /\ fResult' = Undefined
  /\ UNCHANGED <<fCache, varsDump, varsPool, varsServe, varsParse>>

\* return await retry(): it throws when no retry is left, else it starts
\* delay(); nothing is written to the cache
retry ==
  /\ IF RetriesExhausted(fRetries)
     THEN /\ fState' = "threw"
          /\ UNCHANGED fWaited
     ELSE /\ fState' = "waiting"
          /\ fWaited' = fWaited + Delay(fRetries)
  /\ fCache' = CacheAfterFailure(fCache, fUseCache, fUrl)
  /\ UNCHANGED fResult

\* await fetch(url) resolves with a response: one that is not ok goes to
\* retry(); of any other the body is read, await response.text(), and the
\* call is pending again with nothing stored yet
FetchRespond(status) ==
  /\ fState = "requesting"
  /\ fResponses' = Append(fResponses, [status |-> status, doc |-> Undefined])
  /\ IF Ok([status |-> status, doc |-> Undefined])
     THEN /\ fState' = "reading"
          /\ UNCHANGED <<fWaited, fCache, fResult>>
     ELSE retry
  /\ UNCHANGED <<fUrl, fUseCache, fRetries, fAttempts, fCalls, varsDump, varsPool, varsServe, varsParse>>

\* await response.text() resolves and parseDom gives doc: null goes to
\* retry(), a document is stored in the cache and returned
FetchBody(doc) ==
  /\ fState = "reading"
  /\ fResponses' = [fResponses EXCEPT ![Len(fResponses)].doc = doc]
  /\ IF IsDefined(doc)
     THEN /\ fCache' = CacheSet(fCache, fUseCache, fUrl, CHOOSE d \in doc : TRUE)
          /\ fResult' = doc
          /\ fState' = "returned"
          /\ UNCHANGED fWaited
     ELSE retry
  /\ UNCHANGED <<fUrl, fUseCache, fRetries, fAttempts, fCalls, varsDump, varsPool, varsServe, varsParse>>

\* await fetch(url) rejects (no connection) or await response.text() rejects
\* (the connection breaks in the body): urlToDocument rejects at once
FetchThrows ==
  /\ fState \in {"requesting", "reading"}
  /\ fState' = "threw"
  /\ UNCHANGED <<fUrl, fUseCache, fRetries, fCache, fResult, fResponses, fAttempts,
                 fWaited, fCalls, varsDump, varsPool, varsServe, varsParse>>

\* delay() is over: return urlToDocument(url, cache, retries - 1)
FetchRetry ==
  /\ fState = "waiting"
  /\ fRetries' = fRetries - 1
  /\ IF IsDefined(CacheGet(fCache, fUseCache, fUrl))
     THEN /\ fState' = "returned"
          /\ fResult' = CacheGet(fCache, fUseCache, fUrl)
          /\ UNCHANGED fAttempts
     ELSE /\ fState' = "requesting"
          /\ fAttempts' = fAttempts + 1
          /\ UNCHANGED fResult
  /\ UNCHANGED <<fUrl, fUseCache, fCache, fResponses, fWaited, fCalls, varsDump, varsPool, varsServe, varsParse>>

NextFetch ==
  \/ \E url \in Urls, useCache \in BOOLEAN : FetchCall(url, useCache)
  \/ \E status \in Statuses : FetchRespond(status)
  \/ \E doc \in Bodies : FetchBody(doc)
  \/ FetchThrows
  \/ FetchRetry

\* ----------------------------------------------------------- getDataDump
\* specializations.push(...fieldSpecializations): getSpecializationsOfField
\* gives every specialization the id of the field it was asked for.
SpecializationsOfField(fieldId) ==
  [k \in 1 .. Len(site.fieldSpecs[fieldId]) |->
     [id |-> site.fieldSpecs[fieldId][k].id,
      fieldId |-> fieldId,
      name |-> site.fieldSpecs[fieldId][k].name]]

\* for (const review of fieldReviews) reviewIdToFieldId.set(review.id, field.id)
RECURSIVE SetFieldOfReviews(_, _, _)
SetFieldOfReviews(map, entries, fieldId) ==
  IF entries = <<>> THEN map
  ELSE SetFieldOfReviews(MapSet(map, Head(entries).id, fieldId), Tail(entries), fieldId)

\* for (const { id, name } of specializations) { set(name.en, id); set(name.cs, id) }
RECURSIVE SetNamesOfSpecializations(_, _)
SetNamesOfSpecializations(map, specs) ==
  IF specs = <<>> THEN map
  ELSE SetNamesOfSpecializations(
         MapSet(MapSet(map, Head(specs).name.en, Head(specs).id),
                Head(specs).name.cs, Head(specs).id),
         Tail(specs))

\* the Review pushed for one { entry, content } of reviewData.results
ReviewOf(countryId, entry, content) ==
  [ countryId |-> countryId,
    fieldId |-> MapGet(reviewIdToFieldId, entry.id),
    specializationId |-> MapGet(specializationNameToId, content.specializationName),
    id |-> entry.id,
    texts |-> content.texts,
    otherWebsites |-> content.otherWebsites ]

InitDump ==
  /\ site \in Sites
  /\ pc = "base"
  /\ fields = <<>>
  /\ countries = <<>>
  /\ fieldPc = <<>>
  /\ fieldCache = <<>>
  /\ fieldGets = <<>>
  /\ fieldLang = <<>>
  /\ fieldReviews = <<>>
  /\ specializations = <<>>
  /\ reviewIdToFieldId = EmptyMap
  /\ specializationNameToId = EmptyMap
  /\ countryPc = <<>>
  /\ reviewEntries = <<>>
  /\ entryPc = <<>>
  /\ reviewData = <<>>
  /\ reviews = <<>>
  /\ fatal = FALSE
  /\ tablesRead = FALSE

\* const baseCategories = await getBaseCategories(), outside every pool: a fatal
\* fetch rejects getDataDump(). Then the field pool starts.
GetBaseCategories ==
  /\ pc = "base"
  /\ \E outcome \in FetchOutcomes({"base"}, {}) :
       IF outcome = "ok"
       THEN /\ fields' = site.fields
            /\ countries' = Flatten(site.categories)
            /\ fieldPc' = PoolStart(Len(site.fields), MAX_CONCURRENT_REQUESTS, "entries")
            /\ fieldCache' = [i \in 1 .. Len(site.fields) |-> {}]
            /\ fieldGets' = [i \in 1 .. Len(site.fields) |-> EmptyMap]
            /\ fieldLang' = [i \in 1 .. Len(site.fields) |-> LANG_ENGLISH]
            /\ fieldReviews' = [i \in 1 .. Len(site.fields) |-> <<>>]
            /\ pc' = "fields"
       ELSE /\ pc' = "rejected"
            /\ UNCHANGED <<fields, countries, fieldPc, fieldCache, fieldGets, fieldLang,
                           fieldReviews>>
  /\ UNCHANGED <<varsFetch, varsPool, varsServe, varsParse>>
  /\ UNCHANGED <<site, specializations, reviewIdToFieldId, specializationNameToId,
                 countryPc, reviewEntries, entryPc, reviewData, reviews, fatal, tablesRead>>

\* const fieldReviews = await getReviewEntriesByField(field.id, cache): the
\* read awaits the English listing, then the Czech one, and the task is
\* suspended at each; with the Czech listing the entries are returned
FieldEntries(i, lang) ==
  /\ i \in DOMAIN fieldPc
  /\ fieldPc[i] = "entries"
  /\ fieldLang[i] = lang
  /\ \E outcome \in FetchOutcomes({FieldUrl(fields[i], lang)}, fieldCache[i]) :
       IF outcome = "ok"
       THEN /\ fieldGets' = [fieldGets EXCEPT ![i] =
                 CountGets(@, Requested({FieldUrl(fields[i], lang)}, fieldCache[i]))]
            /\ fieldCache' = [fieldCache EXCEPT ![i] =
                 CacheAfterRead(@, {FieldUrl(fields[i], lang)})]
            /\ IF lang = LANG_ENGLISH
               THEN /\ fieldLang' = [fieldLang EXCEPT ![i] = LANG_CZECH]
                    /\ UNCHANGED <<fieldReviews, fieldPc>>
               ELSE /\ fieldReviews' = [fieldReviews EXCEPT ![i] =
                         [k \in 1 .. Len(site.fieldEntries[fields[i]]) |->
                            [id |-> site.fieldEntries[fields[i]][k]]]]
                    /\ fieldPc' = [fieldPc EXCEPT ![i] = "specializations"]
                    /\ UNCHANGED fieldLang
            /\ UNCHANGED fatal
       ELSE /\ fieldPc' = PoolStartNext([fieldPc EXCEPT ![i] = "failed"], "entries")
            /\ fatal' = TRUE
            /\ UNCHANGED <<fieldCache, fieldGets, fieldLang, fieldReviews>>
  /\ UNCHANGED <<varsFetch, varsPool, varsServe, varsParse>>
  /\ UNCHANGED <<site, pc, fields, countries, specializations, reviewIdToFieldId,
                 specializationNameToId, countryPc, reviewEntries, entryPc, reviewData,
                 reviews, tablesRead>>

\* const fieldSpecializations = await getSpecializationsOfField(field.id, cache)
\* and the rest of the field's task
FieldSpecializations(i) ==
  /\ i \in DOMAIN fieldPc
  /\ fieldPc[i] = "specializations"
  /\ \E outcome \in FetchOutcomes(BothLanguages(fields[i]), fieldCache[i]) :
       IF outcome = "ok"
       THEN /\ fieldGets' = [fieldGets EXCEPT ![i] =
                 CountGets(@, Requested(BothLanguages(fields[i]), fieldCache[i]))]
            /\ fieldCache' = [fieldCache EXCEPT ![i] =
                 CacheAfterRead(@, BothLanguages(fields[i]))]
            /\ specializations' = specializations \o SpecializationsOfField(fields[i])
            /\ reviewIdToFieldId' =
                 SetFieldOfReviews(reviewIdToFieldId, fieldReviews[i], fields[i])
            /\ fieldPc' = PoolStartNext([fieldPc EXCEPT ![i] = "done"], "entries")
            /\ UNCHANGED fatal
       ELSE /\ fieldPc' = PoolStartNext([fieldPc EXCEPT ![i] = "failed"], "entries")
            /\ fatal' = TRUE
            /\ \E got \in FetchedBeforeFailure(fields[i], fieldCache[i]) :
                 /\ fieldGets' = [fieldGets EXCEPT ![i] = CountGets(@, got)]
                 /\ fieldCache' = [fieldCache EXCEPT ![i] = CacheAfterRead(@, got)]
            /\ UNCHANGED <<specializations, reviewIdToFieldId>>
  /\ UNCHANGED <<varsFetch, varsPool, varsServe, varsParse>>
  /\ UNCHANGED <<site, pc, fields, countries, fieldLang, fieldReviews,
                 specializationNameToId, countryPc, reviewEntries, entryPc, reviewData,
                 reviews, tablesRead>>

\* a getDataDump() that goes on without awaiting the field pool
FieldPoolNotAwaited == TRUE
\* await PromisePool.withConcurrency(...).for(fields).process(...): the field
\* pool's promise resolves when every task has settled
FieldPoolAwaited == Settled(fieldPc)

\* getDataDump() then fills specializationNameToId and starts the country pool.

BuildSpecializationNameToId ==
  /\ pc = "fields"
  /\ FieldPoolAwaited
  /\ specializationNameToId' = SetNamesOfSpecializations(EmptyMap, specializations)
  /\ countryPc' = PoolStart(Len(countries), MAX_CONCURRENT_COUNTRIES, "listing")
  /\ reviewEntries' = [i \in 1 .. Len(countries) |-> <<>>]
  /\ entryPc' = [i \in 1 .. Len(countries) |-> <<>>]
  /\ reviewData' = [i \in 1 .. Len(countries) |-> <<>>]
  /\ pc' = "countries"
  /\ UNCHANGED <<varsFetch, varsPool, varsServe, varsParse>>
  /\ UNCHANGED <<site, fields, countries, fieldPc, fieldCache, fieldGets,
                 fieldLang, fieldReviews,
                 specializations, reviewIdToFieldId, reviews, fatal, tablesRead>>

\* const reviewEntries = await getReviewEntriesByCountry(countryId), then the
\* inner pool over the entries starts
CountryListing(i) ==
  /\ i \in DOMAIN countryPc
  /\ countryPc[i] = "listing"
  /\ \E outcome \in FetchOutcomes({"country"}, {}) :
       IF outcome = "ok"
       THEN /\ reviewEntries' = [reviewEntries EXCEPT ![i] =
                 [k \in 1 .. Len(site.countryEntries[countries[i]]) |->
                    [id |-> site.countryEntries[countries[i]][k]]]]
            /\ entryPc' = [entryPc EXCEPT ![i] =
                 PoolStart(Len(site.countryEntries[countries[i]]),
                           MAX_CONCURRENT_REQUESTS \div MAX_CONCURRENT_COUNTRIES,
                           "fetching")]
            /\ countryPc' = [countryPc EXCEPT ![i] = "details"]
            /\ UNCHANGED fatal
       ELSE /\ countryPc' = PoolStartNext([countryPc EXCEPT ![i] = "failed"], "listing")
            /\ fatal' = TRUE
            /\ UNCHANGED <<reviewEntries, entryPc>>
  /\ UNCHANGED <<varsFetch, varsPool, varsServe, varsParse>>
  /\ UNCHANGED <<site, pc, fields, countries, fieldPc, fieldCache, fieldGets,
                 fieldLang, fieldReviews,
                 specializations, reviewIdToFieldId, specializationNameToId, reviewData,
                 reviews, tablesRead>>

\* getReviewContent(entry.id).then((content) => ({ entry, content })) of one entry
ReviewContent(i, j) ==
  /\ i \in DOMAIN countryPc
  /\ countryPc[i] = "details"
  /\ j \in DOMAIN entryPc[i]
  /\ entryPc[i][j] = "fetching"
  /\ \E outcome \in FetchOutcomes({"review"}, {}) :
       LET entry == reviewEntries[i][j]
           content == getReviewContent(entry.id, site.specializationName[entry.id],
                                       site.bodies)
       IN IF outcome = "ok" /\ ~content.threw
          THEN /\ reviewData' = [reviewData EXCEPT ![i] =
                    Append(@, [entry |-> entry, content |-> content])]
               /\ entryPc' = [entryPc EXCEPT ![i] =
                    PoolStartNext([@ EXCEPT ![j] = "done"], "fetching")]
               /\ UNCHANGED fatal
          ELSE /\ entryPc' = [entryPc EXCEPT ![i] =
                    PoolStartNext([@ EXCEPT ![j] = "failed"], "fetching")]
               /\ fatal' = (fatal \/ outcome = "fatal")
               /\ UNCHANGED reviewData
  /\ UNCHANGED <<varsFetch, varsPool, varsServe, varsParse>>
  /\ UNCHANGED <<site, pc, fields, countries, fieldPc, fieldCache, fieldGets,
                 fieldLang, fieldReviews,
                 specializations, reviewIdToFieldId, specializationNameToId, countryPc,
                 reviewEntries, reviews, tablesRead>>

\* for (const { entry, content } of reviewData.results) { ... reviews.push(...) }
\* once the inner pool's promise has resolved
CountryMerge(i) ==
  /\ i \in DOMAIN countryPc
  /\ countryPc[i] = "details"
  /\ Settled(entryPc[i])
  /\ reviews' = reviews \o
       [k \in 1 .. Len(reviewData[i]) |->
          ReviewOf(countries[i], reviewData[i][k].entry, reviewData[i][k].content)]
  /\ tablesRead' = (tablesRead \/ reviewData[i] # <<>>)
  /\ countryPc' = PoolStartNext([countryPc EXCEPT ![i] = "done"], "listing")
  /\ UNCHANGED <<varsFetch, varsPool, varsServe, varsParse>>
  /\ UNCHANGED <<site, pc, fields, countries, fieldPc, fieldCache, fieldGets,
                 fieldLang, fieldReviews,
                 specializations, reviewIdToFieldId, specializationNameToId,
                 reviewEntries, entryPc, reviewData, fatal>>

\* return { countryCategories, fields, specializations, reviews } once the
\* country pool's promise has resolved
ReturnDataDump ==
  /\ pc = "countries"
  /\ Settled(countryPc)
  /\ pc' = "returned"
  /\ UNCHANGED <<varsFetch, varsPool, varsServe, varsParse>>
  /\ UNCHANGED <<site, fields, countries, fieldPc, fieldCache, fieldGets,
                 fieldLang, fieldReviews,
                 specializations, reviewIdToFieldId, specializationNameToId, countryPc,
                 reviewEntries, entryPc, reviewData, reviews, fatal, tablesRead>>

FieldTasks == 1 .. NumFields
CountryTasks == 1 .. MaxCategories
EntryTasks == 1 .. NumReviews

NextDump ==
  \/ GetBaseCategories
  \/ \E i \in FieldTasks, lang \in {LANG_ENGLISH, LANG_CZECH} : FieldEntries(i, lang)
  \/ \E i \in FieldTasks : FieldSpecializations(i)
  \/ BuildSpecializationNameToId
  \/ \E i \in CountryTasks : CountryListing(i)
  \/ \E i \in CountryTasks, j \in EntryTasks : ReviewContent(i, j)
  \/ \E i \in CountryTasks : CountryMerge(i)
  \/ ReturnDataDump

\* no getDataDump() is running
IdleDump ==
  /\ site = <<>>
  /\ pc = "idle"
  /\ fields = <<>>
  /\ countries = <<>>
  /\ fieldPc = <<>>
  /\ fieldCache = <<>>
  /\ fieldGets = <<>>
  /\ fieldLang = <<>>
  /\ fieldReviews = <<>>
  /\ specializations = <<>>
  /\ reviewIdToFieldId = EmptyMap
  /\ specializationNameToId = EmptyMap
  /\ countryPc = <<>>
  /\ reviewEntries = <<>>
  /\ entryPc = <<>>
  /\ reviewData = <<>>
  /\ reviews = <<>>
  /\ fatal = FALSE
  /\ tablesRead = FALSE

\* ------------------------------------------- the pools, tasks counted
Min(a, b) == IF a <= b THEN a ELSE b

\* an inner pool as wide as the outer one allows in all
InnerConcurrencyUndivided == MAX_CONCURRENT_REQUESTS
\* PromisePool.withConcurrency(MAX_CONCURRENT_REQUESTS / MAX_CONCURRENT_COUNTRIES)
InnerConcurrency == MAX_CONCURRENT_REQUESTS \div MAX_CONCURRENT_COUNTRIES

\* A task awaiting the English or the Czech page of a listing: one call of
\* urlToDocument. waiting counts the calls of a task that are in delay()
\* before a retry (lines 34-40) and have no request out.
ListingTask(lang) == [stage |-> lang, queued |-> 0, active |-> 0, waiting |-> 0]
\* a country task awaiting its inner pool over n entries, just started
DetailsTask(n) ==
  [stage |-> "details", queued |-> n - Min(n, InnerConcurrency),
   active |-> Min(n, InnerConcurrency), waiting |-> 0]

\* a pool that starts no further item once a task has thrown
StartsNextUnlessFailed(queued, failed) == queued > 0 /\ ~failed
\* The pool's loop takes the next item whenever a task has settled and items
\* are left: a thrown error is put into errors and the loop goes on.
StartsNext(queued, failed) == queued > 0

\* the country pool once one of its tasks has settled, having failed or not:
\* the next queued country is started
CountrySettled(task, failed) ==
  /\ pCountriesAt' =
       IF StartsNext(pCountriesQueued, failed)
       THEN (pCountriesAt (-) SetToBag({task})) (+) SetToBag({ListingTask(LANG_ENGLISH)})
       ELSE pCountriesAt (-) SetToBag({task})
  /\ pCountriesQueued' =
       IF StartsNext(pCountriesQueued, failed) THEN pCountriesQueued - 1 ELSE pCountriesQueued
  /\ pStartedAfterFailure' =
       (pStartedAfterFailure \/ (failed /\ StartsNext(pCountriesQueued, failed)))

\* the calls of urlToDocument a task has pending: one for a page of a
\* listing, one per running getReviewContent
CallsOf(task) == IF task.stage = "details" THEN task.active ELSE 1

\* the requests a task has out: its pending calls less those in delay()
RequestsOf(task) == CallsOf(task) - task.waiting

RECURSIVE BagSum(_, _)
BagSum(bag, tasks) ==
  IF tasks = {} THEN 0
  ELSE LET t == CHOOSE x \in tasks : TRUE
       IN bag[t] * RequestsOf(t) + BagSum(bag, tasks \ {t})

\* the requests the field tasks awaiting the listing of lang have out
FieldRequests(lang) == pFieldsAt[lang] - pFieldsWaiting[lang]

\* the HTTP requests that are out
Outstanding ==
  CASE pPhase = "base" -> RequestsOf(pBaseAt)
    [] pPhase = "fields" -> FieldRequests(LANG_ENGLISH) + FieldRequests(LANG_CZECH)
    [] pPhase = "countries" -> BagSum(pCountriesAt, BagToSet(pCountriesAt))
    [] OTHER -> 0

IdlePool ==
  /\ pPhase = "idle"
  /\ pBaseAt = ListingTask(LANG_ENGLISH)
  /\ pFieldsQueued = 0
  /\ pFieldsAt = [lang \in {LANG_ENGLISH, LANG_CZECH} |-> 0]
  /\ pFieldsWaiting = [lang \in {LANG_ENGLISH, LANG_CZECH} |-> 0]
  /\ pCountriesQueued = 0
  /\ pCountriesAt = EmptyBag
  /\ pStartedAfterFailure = FALSE
  /\ pWaits = 0

\* getDataDump() is called on a site of some numbers of fields and countries:
\* getBaseCategories() has asked for the English base page
InitPool ==
  /\ pPhase = "base"
  /\ pBaseAt = ListingTask(LANG_ENGLISH)
  /\ pFieldsQueued \in 0 .. MaxPoolFields
  /\ pFieldsAt = [lang \in {LANG_ENGLISH, LANG_CZECH} |-> 0]
  /\ pFieldsWaiting = [lang \in {LANG_ENGLISH, LANG_CZECH} |-> 0]
  /\ pCountriesQueued \in 0 .. MaxPoolCountries
  /\ pCountriesAt = EmptyBag
  /\ pStartedAfterFailure = FALSE
  /\ pWaits = 0

\* getBaseCategories() got the English base page and asks for the Czech one
PoolBaseEnglish ==
  /\ UNCHANGED <<varsDump, varsFetch, varsServe, varsParse>>
  /\ pPhase = "base"
  /\ pBaseAt = ListingTask(LANG_ENGLISH)
  /\ pBaseAt' = ListingTask(LANG_CZECH)
  /\ UNCHANGED <<pPhase, pFieldsQueued, pFieldsAt, pFieldsWaiting, pCountriesQueued,
                 pCountriesAt, pStartedAfterFailure, pWaits>>

\* getBaseCategories() has returned: the field pool starts its first tasks
PoolBase ==
  /\ UNCHANGED <<varsDump, varsFetch, varsServe, varsParse>>
  /\ pPhase = "base"
  /\ pBaseAt = ListingTask(LANG_CZECH)
  /\ pPhase' = "fields"
  /\ pFieldsAt' = [pFieldsAt EXCEPT
                     ![LANG_ENGLISH] = Min(pFieldsQueued, MAX_CONCURRENT_REQUESTS)]
  /\ pFieldsQueued' = pFieldsQueued - Min(pFieldsQueued, MAX_CONCURRENT_REQUESTS)
  /\ UNCHANGED <<pBaseAt, pFieldsWaiting, pCountriesQueued, pCountriesAt,
                 pStartedAfterFailure, pWaits>>

\* const baseCategories = await getBaseCategories() throws, a request for a
\* base page having failed for good: getDataDump() rejects and starts no pool
PoolBaseRejects ==
  /\ UNCHANGED <<varsDump, varsFetch, varsServe, varsParse>>
  /\ pPhase = "base"
  /\ RequestsOf(pBaseAt) > 0
  /\ pPhase' = "rejected"
  /\ UNCHANGED <<pBaseAt, pFieldsQueued, pFieldsAt, pFieldsWaiting, pCountriesQueued,
                 pCountriesAt, pStartedAfterFailure, pWaits>>

\* the request for a base page is answered by a response that is not ok or
\* does not parse: retry() starts delay(), no request is out
PoolBaseWaits ==
  /\ UNCHANGED <<varsDump, varsFetch, varsServe, varsParse>>
  /\ pPhase = "base"
  /\ RequestsOf(pBaseAt) > 0
  /\ pWaits < MaxWaits
  /\ pWaits' = pWaits + 1
  /\ pBaseAt' = [pBaseAt EXCEPT !.waiting = @ + 1]
  /\ UNCHANGED <<pPhase, pFieldsQueued, pFieldsAt, pFieldsWaiting, pCountriesQueued,
                 pCountriesAt, pStartedAfterFailure>>

\* delay() is over: the base page is requested again
PoolBaseRetries ==
  /\ UNCHANGED <<varsDump, varsFetch, varsServe, varsParse>>
  /\ pPhase = "base"
  /\ pBaseAt.waiting > 0
  /\ pBaseAt' = [pBaseAt EXCEPT !.waiting = @ - 1]
  /\ UNCHANGED <<pPhase, pFieldsQueued, pFieldsAt, pFieldsWaiting, pCountriesQueued,
                 pCountriesAt, pStartedAfterFailure, pWaits>>

\* a field task got its English listing and asks for the Czech one
PoolFieldEnglish ==
  /\ UNCHANGED <<varsDump, varsFetch, varsServe, varsParse>>
  /\ pPhase = "fields"
  /\ FieldRequests(LANG_ENGLISH) > 0
  /\ pFieldsAt' = [pFieldsAt EXCEPT ![LANG_ENGLISH] = @ - 1, ![LANG_CZECH] = @ + 1]
  /\ UNCHANGED <<pPhase, pBaseAt, pFieldsQueued, pFieldsWaiting, pCountriesQueued,
                 pCountriesAt, pStartedAfterFailure, pWaits>>

\* a field task settles: its Czech listing came (the specializations are read
\* from the cache) or a fetch failed fatally (of the English listing it can
\* only have failed); the pool starts the next field
PoolFieldSettles(lang, failed) ==
  /\ UNCHANGED <<varsDump, varsFetch, varsServe, varsParse>>
  /\ pPhase = "fields"
  /\ FieldRequests(lang) > 0
  /\ lang = LANG_ENGLISH => failed
  /\ pFieldsAt' =
       IF StartsNext(pFieldsQueued, failed)
       THEN [[pFieldsAt EXCEPT ![lang] = @ - 1] EXCEPT ![LANG_ENGLISH] = @ + 1]
       ELSE [pFieldsAt EXCEPT ![lang] = @ - 1]
  /\ pFieldsQueued' =
       IF StartsNext(pFieldsQueued, failed) THEN pFieldsQueued - 1 ELSE pFieldsQueued
  /\ pStartedAfterFailure' =
       (pStartedAfterFailure \/ (failed /\ StartsNext(pFieldsQueued, failed)))
  /\ UNCHANGED <<pPhase, pBaseAt, pFieldsWaiting, pCountriesQueued, pCountriesAt, pWaits>>

\* the request of a field task is answered by a response that is not ok or
\* does not parse: retry() starts delay(), the task has no request out
PoolFieldWaits(lang) ==
  /\ UNCHANGED <<varsDump, varsFetch, varsServe, varsParse>>
  /\ pPhase = "fields"
  /\ FieldRequests(lang) > 0
  /\ pWaits < MaxWaits
  /\ pWaits' = pWaits + 1
  /\ pFieldsWaiting' = [pFieldsWaiting EXCEPT ![lang] = @ + 1]
  /\ UNCHANGED <<pPhase, pBaseAt, pFieldsQueued, pFieldsAt, pCountriesQueued,
                 pCountriesAt, pStartedAfterFailure>>

\* delay() is over: the field task requests its listing again
PoolFieldRetries(lang) ==
  /\ UNCHANGED <<varsDump, varsFetch, varsServe, varsParse>>
  /\ pPhase = "fields"
  /\ pFieldsWaiting[lang] > 0
  /\ pFieldsWaiting' = [pFieldsWaiting EXCEPT ![lang] = @ - 1]
  /\ UNCHANGED <<pPhase, pBaseAt, pFieldsQueued, pFieldsAt, pCountriesQueued,
                 pCountriesAt, pStartedAfterFailure, pWaits>>

\* the field pool's promise has resolved: the country pool starts its first tasks
PoolFieldsDrained ==
  /\ UNCHANGED <<varsDump, varsFetch, varsServe, varsParse>>
  /\ pPhase = "fields"
  /\ pFieldsQueued = 0
  /\ pFieldsAt[LANG_ENGLISH] + pFieldsAt[LANG_CZECH] = 0
  /\ pPhase' = "countries"
  /\ pCountriesAt' =
       [t \in { x \in {ListingTask(LANG_ENGLISH)} : pCountriesQueued > 0 } |->
          Min(pCountriesQueued, MAX_CONCURRENT_COUNTRIES)]
  /\ pCountriesQueued' = pCountriesQueued - Min(pCountriesQueued, MAX_CONCURRENT_COUNTRIES)
  /\ UNCHANGED <<pBaseAt, pFieldsQueued, pFieldsAt, pFieldsWaiting, pStartedAfterFailure,
                 pWaits>>

\* a country task got its English listing and asks for the Czech one
PoolCountryEnglish ==
  /\ UNCHANGED <<varsDump, varsFetch, varsServe, varsParse>>
  /\ pPhase = "countries"
  /\ BagIn(ListingTask(LANG_ENGLISH), pCountriesAt)
  /\ pCountriesAt' = (pCountriesAt (-) SetToBag({ListingTask(LANG_ENGLISH)}))
                       (+) SetToBag({ListingTask(LANG_CZECH)})
  /\ UNCHANGED <<pPhase, pBaseAt, pFieldsQueued, pFieldsAt, pFieldsWaiting,
                 pCountriesQueued, pStartedAfterFailure, pWaits>>

\* a country task got its Czech listing, of n entries, and starts its inner pool
PoolCountryListing(n) ==
  /\ UNCHANGED <<varsDump, varsFetch, varsServe, varsParse>>
  /\ pPhase = "countries"
  /\ BagIn(ListingTask(LANG_CZECH), pCountriesAt)
  /\ IF n = 0
     THEN CountrySettled(ListingTask(LANG_CZECH), FALSE)
     ELSE /\ pCountriesAt' = (pCountriesAt (-) SetToBag({ListingTask(LANG_CZECH)}))
                               (+) SetToBag({DetailsTask(n)})
          /\ UNCHANGED <<pCountriesQueued, pStartedAfterFailure>>
  /\ UNCHANGED <<pPhase, pBaseAt, pFieldsQueued, pFieldsAt, pFieldsWaiting, pWaits>>

\* a country task's fetch of a listing failed fatally: the task settles
PoolCountryFails(lang) ==
  /\ UNCHANGED <<varsDump, varsFetch, varsServe, varsParse>>
  /\ pPhase = "countries"
  /\ BagIn(ListingTask(lang), pCountriesAt)
  /\ CountrySettled(ListingTask(lang), TRUE)
  /\ UNCHANGED <<pPhase, pBaseAt, pFieldsQueued, pFieldsAt, pFieldsWaiting, pWaits>>

\* a getReviewContent of a country task settles, having failed or not; the
\* inner pool starts the next entry, or, none running any more, the country
\* task merges and settles (the inner pool's errors do not fail it)
PoolEntrySettles(task, failed) ==
  /\ UNCHANGED <<varsDump, varsFetch, varsServe, varsParse>>
  /\ pPhase = "countries"
  /\ BagIn(task, pCountriesAt)
  /\ task.stage = "details"
  /\ RequestsOf(task) > 0
  /\ IF StartsNext(task.queued, failed)
     THEN /\ pCountriesAt' = (pCountriesAt (-) SetToBag({task}))
                               (+) SetToBag({[task EXCEPT !.queued = @ - 1]})
          /\ pStartedAfterFailure' = (pStartedAfterFailure \/ failed)
          /\ UNCHANGED pCountriesQueued
     ELSE IF task.active > 1
     THEN /\ pCountriesAt' = (pCountriesAt (-) SetToBag({task}))
                               (+) SetToBag({[task EXCEPT !.active = @ - 1]})
          /\ UNCHANGED <<pCountriesQueued, pStartedAfterFailure>>
     ELSE CountrySettled(task, FALSE)
  /\ UNCHANGED <<pPhase, pBaseAt, pFieldsQueued, pFieldsAt, pFieldsWaiting, pWaits>>

\* a request of a country task, for a listing or for a detail page, is
\* answered by a response that is not ok or does not parse: retry() starts
\* delay(), that call has no request out
PoolCountryWaits(task) ==
  /\ UNCHANGED <<varsDump, varsFetch, varsServe, varsParse>>
  /\ pPhase = "countries"
  /\ BagIn(task, pCountriesAt)
  /\ RequestsOf(task) > 0
  /\ pWaits < MaxWaits
  /\ pWaits' = pWaits + 1
  /\ pCountriesAt' = (pCountriesAt (-) SetToBag({task}))
                       (+) SetToBag({[task EXCEPT !.waiting = @ + 1]})
  /\ UNCHANGED <<pPhase, pBaseAt, pFieldsQueued, pFieldsAt, pFieldsWaiting,
                 pCountriesQueued, pStartedAfterFailure>>

\* delay() is over: the country task's call requests its url again
PoolCountryRetries(task) ==
  /\ UNCHANGED <<varsDump, varsFetch, varsServe, varsParse>>
  /\ pPhase = "countries"
  /\ BagIn(task, pCountriesAt)
  /\ task.waiting > 0
  /\ pCountriesAt' = (pCountriesAt (-) SetToBag({task}))
                       (+) SetToBag({[task EXCEPT !.waiting = @ - 1]})
  /\ UNCHANGED <<pPhase, pBaseAt, pFieldsQueued, pFieldsAt, pFieldsWaiting,
                 pCountriesQueued, pStartedAfterFailure, pWaits>>

\* the country pool's promise has resolved: getDataDump() returns
PoolReturn ==
  /\ UNCHANGED <<varsDump, varsFetch, varsServe, varsParse>>
  /\ pPhase = "countries"
  /\ pCountriesQueued = 0
  /\ pCountriesAt = EmptyBag
  /\ pPhase' = "returned"
  /\ UNCHANGED <<pBaseAt, pFieldsQueued, pFieldsAt, pFieldsWaiting, pCountriesQueued,
                 pCountriesAt, pStartedAfterFailure, pWaits>>

NextPool ==
  \/ PoolBaseEnglish
  \/ PoolBase
  \/ PoolBaseRejects
  \/ PoolBaseWaits
  \/ PoolBaseRetries
  \/ PoolFieldEnglish
  \/ \E lang \in {LANG_ENGLISH, LANG_CZECH}, failed \in BOOLEAN : PoolFieldSettles(lang, failed)
  \/ \E lang \in {LANG_ENGLISH, LANG_CZECH} : PoolFieldWaits(lang)
  \/ \E lang \in {LANG_ENGLISH, LANG_CZECH} : PoolFieldRetries(lang)
  \/ PoolFieldsDrained
  \/ PoolCountryEnglish
  \/ \E n \in 0 .. MaxPoolEntries : PoolCountryListing(n)
  \/ \E lang \in {LANG_ENGLISH, LANG_CZECH} : PoolCountryFails(lang)
  \/ \E task \in BagToSet(pCountriesAt), failed \in BOOLEAN : PoolEntrySettles(task, failed)
  \/ \E task \in BagToSet(pCountriesAt) : PoolCountryWaits(task)
  \/ \E task \in BagToSet(pCountriesAt) : PoolCountryRetries(task)
  \/ PoolReturn

\* ------------------------------------------------- texts and hyperlinks
\* A text or an href is a sequence of characters, a word or a fragment of a
\* url standing for its characters.
COUNTRY_URL_FRAGMENT == "&country="
FIELD_URL_FRAGMENT == "&faculty="
SPECIALIZATION_URL_FRAGMENT == "&specialization="
REVIEW_ID_URL_FRAGMENT == "&id="
ROOT_URL == "https://www.iaeste.cz"

DigitChars == <<"0", "1", "2", "3", "4", "5", "6", "7", "8", "9">>
IsDigit(c) == \E i \in DOMAIN DigitChars : DigitChars[i] = c
DigitValue(c) == (CHOOSE i \in DOMAIN DigitChars : DigitChars[i] = c) - 1

\* the number a string of digits stands for
RECURSIVE NumberOfDigits(_)
NumberOfDigits(ds) ==
  IF ds = <<>> THEN 0
  ELSE 10 * NumberOfDigits(SubSeq(ds, 1, Len(ds) - 1)) + DigitValue(ds[Len(ds)])

\* String(n) of a non-negative integer
RECURSIVE DigitsOf(_)
DigitsOf(n) ==
  IF n < 10 THEN <<DigitChars[n + 1]>>
  ELSE Append(DigitsOf(n \div 10), DigitChars[(n % 10) + 1])

\* String.prototype.trim
RECURSIVE Trim(_)
Trim(text) ==
  IF text = <<>> THEN <<>>
  ELSE IF Head(text) = " " THEN Trim(Tail(text))
  ELSE IF text[Len(text)] = " " THEN Trim(SubSeq(text, 1, Len(text) - 1))
  ELSE text

\* textOf, hrefOf: el?.textContent?.trim() ?? "", el?.getAttribute("href") ?? ""
textOf(el) == IF el = Undefined THEN <<>> ELSE Trim((CHOOSE e \in el : TRUE).text)
hrefOf(el) == IF el = Undefined THEN <<>> ELSE (CHOOSE e \in el : TRUE).href

\* Number(s) of a string: NaN, a value no string of digits stands for, when
\* s is not a number
NaN == -2
Number(text) ==
  LET t == Trim(text)
  IN IF \A i \in DOMAIN t : IsDigit(t[i]) THEN NumberOfDigits(t) ELSE NaN

\* Number(href.match(/<fragment>(\d+)/)?.[1] ?? -1): the digits after the
\* first fragment that has a digit behind it
IdIn(href, fragment) ==
  LET starts == { i \in 1 .. (Len(href) - 1) : href[i] = fragment /\ IsDigit(href[i + 1]) }
  IN IF starts = {} THEN -1
     ELSE LET i == CHOOSE x \in starts : \A y \in starts : x <= y
              j == CHOOSE x \in (i + 1) .. Len(href) :
                     /\ \A k \in (i + 1) .. x : IsDigit(href[k])
                     /\ x = Len(href) \/ ~IsDigit(href[x + 1])
          IN NumberOfDigits(SubSeq(href, i + 1, j))

\* a reader that keeps what has no id
HasIdAlways(id) == TRUE
\* id !== -1
HasId(id) == id # -1

\* href contains the string fragment + n (the selector a[href*="..."] and
\* href.match(fragment + n))
HrefContains(href, fragment, n) ==
  /\ n >= 0
  /\ \E i \in 1 .. Len(href) :
       /\ href[i] = fragment
       /\ i + Len(DigitsOf(n)) <= Len(href)
       /\ SubSeq(href, i + 1, i + Len(DigitsOf(n))) = DigitsOf(n)

\* new Map(pairs): the keys in the order of their first pair, each with the
\* value of its last pair
RECURSIVE MapKeys(_)
MapKeys(pairs) ==
  IF pairs = <<>> THEN <<>>
  ELSE LET front == SubSeq(pairs, 1, Len(pairs) - 1)
           last == pairs[Len(pairs)]
       IN IF \E i \in DOMAIN front : front[i][1] = last[1]
          THEN MapKeys(front) ELSE Append(MapKeys(front), last[1])
RECURSIVE MapOfPairs(_)
MapOfPairs(pairs) ==
  IF pairs = <<>> THEN EmptyMap
  ELSE MapSet(MapOfPairs(SubSeq(pairs, 1, Len(pairs) - 1)),
              pairs[Len(pairs)][1], pairs[Len(pairs)][2])
\* map.delete(key)
MapDelete(m, key) == [x \in (DOMAIN m) \ {key} |-> m[x]]

\* array.filter(keep) and array.map(f)
Filter(arr, keep(_)) == SelectSeq(arr, keep)
Map(arr, f(_)) == [i \in DOMAIN arr |-> f(arr[i])]

\* -------------------------------------------- getSpecializationsOfField
\* A field's page is the sequence of its anchors, each [href, text].
\* querySelectorAll(doc, `a[href*="&faculty=${fieldId}"]`)
SelectField(a, fieldId) == HrefContains(a.href, FIELD_URL_FRAGMENT, fieldId)

\* the pairs [id, name] of the Map of one language
SpecializationItems(doc, fieldId) ==
  LET selected(a) == SelectField(a, fieldId)
      item(a) == <<IdIn(hrefOf(Some(a)), SPECIALIZATION_URL_FRAGMENT), textOf(Some(a))>>
      hasId(it) == HasId(it[1])
  IN Filter(Map(Filter(doc, selected), item), hasId)

getSpecializationsOfField(fieldId, enDoc, csDoc) ==
  LET enItems == SpecializationItems(enDoc, fieldId)
      csItems == MapOfPairs(SpecializationItems(csDoc, fieldId))
      en == MapOfPairs(enItems)
      spec(id) == [id |-> id, fieldId |-> fieldId,
                   name |-> [en |-> en[id],
                             cs |-> IF IsDefined(MapGet(csItems, id)) THEN csItems[id] ELSE <<>>]]
  IN Map(MapKeys(enItems), spec)

\* ---------------------------------------------------- getBaseCategories
\* The base page of one language is the sequence of its table cells, a cell
\* the sequence of its children, each [tag, href, text] with tag "h2" or "a".
IsHeading(el) == el.tag = "h2"
IsAnchor(el) == el.tag = "a"

\* for (const el of cell.children): cat is the category the cell has opened
RECURSIVE CellCats(_, _, _)
CellCats(els, cats, hasCat) ==
  IF els = <<>> THEN cats
  ELSE LET el == Head(els)
           id == IdIn(hrefOf(Some(el)), COUNTRY_URL_FRAGMENT)
       IN IF IsHeading(el)
          THEN CellCats(Tail(els),
                        Append(cats, [en |-> textOf(Some(el)), countries |-> <<>>]), TRUE)
          ELSE IF ~hasCat \/ ~IsAnchor(el) \/ ~HasId(id)
          THEN CellCats(Tail(els), cats, hasCat)
          ELSE CellCats(Tail(els),
                        [cats EXCEPT ![Len(cats)].countries =
                           Append(@, [en |-> textOf(Some(el)), id |-> id])],
                        hasCat)

\* for (const cell of enCells) { let cat; ... }
RECURSIVE Cats(_, _)
Cats(cells, cats) ==
  IF cells = <<>> THEN cats ELSE Cats(Tail(cells), CellCats(Head(cells), cats, FALSE))

\* countriesById.get(id): the last country object of that id, as the place
\* <<category, country>> it has in cats
CountryById(cats, id) ==
  LET places == { pl \in (DOMAIN cats) \X (1 .. MaxElements + 1) :
                    /\ pl[2] <= Len(cats[pl[1]].countries)
                    /\ cats[pl[1]].countries[pl[2]].id = id }
  IN IF places = {} THEN Undefined
     ELSE Some(CHOOSE pl \in places :
                 \A q \in places : q[1] < pl[1] \/ (q[1] = pl[1] /\ q[2] <= pl[2]))

\* the pairs [id, text] of the anchors, the key being the id after fragment
AnchorPairs(anchors, fragment) ==
  LET pair(a) == <<IdIn(hrefOf(Some(a)), fragment), textOf(Some(a))>>
  IN Map(anchors, pair)

\* a reader that makes a Field of every anchor with a field id
FieldKeysOfEveryAnchor(pairs) ==
  LET kept(id) == id # -1
      key(pair) == pair[1]
  IN Filter(Map(pairs, key), kept)
\* [...enFields.keys()] after enFields.delete(-1)
FieldKeys(pairs) == LET kept(id) == id # -1 IN Filter(MapKeys(pairs), kept)

getBaseCategories(enCells, csCells) ==
  LET cats == Cats(enCells, <<>>)
      csHeadings == Filter(Flatten(csCells), IsHeading)
      csAnchors == Filter(Flatten(csCells), IsAnchor)
      enAnchors == Filter(Flatten(enCells), IsAnchor)
      csCountries == MapOfPairs(AnchorPairs(csAnchors, COUNTRY_URL_FRAGMENT))
      \* country.cs of the country at a place: set when the Czech anchors have
      \* its id and countriesById holds this very object
      countryCs(c, k) ==
        LET id == cats[c].countries[k].id
        IN IF id \in DOMAIN csCountries /\ CountryById(cats, id) = Some(<<c, k>>)
           THEN csCountries[id] ELSE <<>>
      category(c) ==
        [name |-> [en |-> cats[c].en,
                   cs |-> IF c <= Len(csHeadings) THEN textOf(Some(csHeadings[c])) ELSE <<>>],
         countries |-> [k \in DOMAIN cats[c].countries |->
                          [id |-> cats[c].countries[k].id,
                           name |-> [en |-> cats[c].countries[k].en, cs |-> countryCs(c, k)]]]]
      enPairs == AnchorPairs(enAnchors, FIELD_URL_FRAGMENT)
      enFields == MapDelete(MapOfPairs(enPairs), -1)
      csFields == MapDelete(MapOfPairs(AnchorPairs(csAnchors, FIELD_URL_FRAGMENT)), -1)
      field(id) == [id |-> id,
                    name |-> [en |-> enFields[id],
                              cs |-> IF id \in DOMAIN csFields THEN csFields[id] ELSE <<>>]]
  IN IF Len(csHeadings) > Len(cats)
     THEN [threw |-> TRUE]       \* cats[i].cs = ... with cats[i] undefined
     ELSE [threw |-> FALSE,
           countryCategories |-> [c \in DOMAIN cats |-> category(c)],
           fields |-> Map(FieldKeys(enPairs), field)]

\* -------------------------------------------------- sublistToReviewEntries
\* A listing table is the sequence of its rows, the first being the header;
\* a row is [cells, czIcon, thumb], a cell [text, anchors], an anchor [href].
\* String.prototype.toLowerCase, character by character
LowerChar(c) ==
  CASE c = "Year" -> "year"
    [] c = "Location" -> "location"
    [] c = "Student" -> "student"
    [] c = "University" -> "university"
    [] c = "Specialization" -> "specialization"
    [] OTHER -> c
toLowerCase(text) == [i \in DOMAIN text |-> LowerChar(text[i])]
\* h.includes(str), str being one word
includes(text, str) == \E i \in DOMAIN text : text[i] = str

\* array.shift(): the array without its first member
\* a reader that takes the header row for a row of data
ShiftNothing(rows) == rows
Shift(rows) == IF rows = <<>> THEN <<>> ELSE Tail(rows)

\* a reader that takes the columns in the order year, location, student,
\* university, specialization
findColumnFixed(headers, str) ==
  CASE str = "year" -> 1
    [] str = "location" -> 2
    [] str = "student" -> 3
    [] str = "university" -> 4
    [] OTHER -> 5
\* headers.findIndex((h) => h.includes(str)) + 1
findColumn(headers, str) ==
  LET found == { i \in DOMAIN headers : includes(headers[i], str) }
  IN IF found = {} THEN 0 ELSE CHOOSE i \in found : \A j \in found : i <= j

\* tr.querySelector(`td:nth-of-type(${i})`)
getColumn(row, i) == IF i \in DOMAIN row.cells THEN Some(row.cells[i]) ELSE Undefined
\* querySelector(cell, "a")
FirstAnchor(cell) ==
  IF cell = Undefined THEN Undefined ELSE At((CHOOSE c \in cell : TRUE).anchors, 0)
\* querySelectorAll(row, "a")
AnchorsOfRow(row) == Flatten([i \in DOMAIN row.cells |-> row.cells[i].anchors])

\* text.split(","), every part trimmed
RECURSIVE SplitAtCommas(_, _)
SplitAtCommas(text, part) ==
  IF text = <<>> THEN <<Trim(part)>>
  ELSE IF Head(text) = "," THEN <<Trim(part)>> \o SplitAtCommas(Tail(text), <<>>)
  ELSE SplitAtCommas(Tail(text), Append(part, Head(text)))

\* csRows.find((row) => querySelectorAll(row, "a").some((a) => hrefOf(a).match("&id=" + id)))
FindCzechRow(csRows, id) ==
  LET found == { i \in DOMAIN csRows :
                   \E k \in DOMAIN AnchorsOfRow(csRows[i]) :
                     HrefContains(AnchorsOfRow(csRows[i])[k].href, REVIEW_ID_URL_FRAGMENT, id) }
  IN IF found = {} THEN Undefined
     ELSE Some(csRows[CHOOSE i \in found : \A j \in found : i <= j])

ReviewEntryOf(row, headers, csRows) ==
  LET year == findColumn(headers, "year")
      location == findColumn(headers, "location")
      student == findColumn(headers, "student")
      university == findColumn(headers, "university")
      id == IdIn(hrefOf(FirstAnchor(getColumn(row, location))), REVIEW_ID_URL_FRAGMENT)
      names == SplitAtCommas(textOf(getColumn(row, student)), <<>>)
      universityEn == textOf(getColumn(row, university))
      csRow == FindCzechRow(csRows, id)
      universityCs ==
        IF csRow = Undefined THEN <<>>
        ELSE textOf(getColumn(CHOOSE r \in csRow : TRUE, university))
  IN [ id |-> id,
       year |-> Number(textOf(getColumn(row, year))),
       location |-> textOf(getColumn(row, location)),
       student |-> [name |-> At(names, 1), surname |-> names[1]],
       reviewLanguage |-> IF row.czIcon THEN "cs" ELSE "en",
       university |-> IF universityEn = <<>> /\ universityCs = <<>> THEN Undefined
                      ELSE Some([en |-> universityEn, cs |-> universityCs]),
       thumbnailUrl |-> <<ROOT_URL>> \o (IF row.thumb = Undefined THEN <<>>
                                          ELSE CHOOSE src \in row.thumb : TRUE) ]

sublistToReviewEntries(enTable, csTable) ==
  LET csRows == Shift(csTable)
      headers == IF enTable = <<>> THEN <<>>
                 ELSE [i \in DOMAIN Head(enTable).cells |->
                         toLowerCase(textOf(Some(Head(enTable).cells[i])))]
      enRows == Shift(enTable)
  IN [r \in DOMAIN enRows |-> ReviewEntryOf(enRows[r], headers, csRows)]

\* ------------------------------------------------------------- the pages
EnWords == <<"Alfa", "Bravo", "Charlie", "Delta", "Echo">>
CsWords == <<"Adam", "Bozena", "Cyril", "David", "Emil">>
\* the text of the i-th element of a page, in English (with white space
\* around it) and in Czech
EnText(i) == <<" ", EnWords[((i - 1) % Len(EnWords)) + 1], " ">>
CsText(i) == <<CsWords[((i - 1) % Len(CsWords)) + 1]>>

\* all sequences over S of the lengths lo .. hi
SeqsOf(S, lo, hi) == UNION { [1 .. n -> S] : n \in lo .. hi }
\* a sequence without its k-th member (k = 0: the sequence itself)
Without(seq, k) ==
  [i \in 1 .. (IF k \in DOMAIN seq THEN Len(seq) - 1 ELSE Len(seq)) |->
     IF k \in DOMAIN seq /\ i >= k THEN seq[i + 1] ELSE seq[i]]

\* The hrefs of a field's page: a field 1 or 12, or none, and a
\* specialization 1 or 2, or none.
FieldPageHrefs ==
  { f \o sp : f \in { <<>>, <<FIELD_URL_FRAGMENT, "1">>, <<FIELD_URL_FRAGMENT, "1", "2">> },
              sp \in { <<>>, <<SPECIALIZATION_URL_FRAGMENT, "1">>,
                       <<SPECIALIZATION_URL_FRAGMENT, "2">> } }

\* The Czech page has the anchors of the English one, translated, but for
\* the dropped one.
FieldPages ==
  { [kind |-> "field", fieldId |-> fieldId,
     en |-> [i \in DOMAIN hrefs |-> [href |-> hrefs[i], text |-> EnText(i)]],
     cs |-> Without([i \in DOMAIN hrefs |-> [href |-> hrefs[i], text |-> CsText(i)]], dropped)] :
      fieldId \in {1, 12},
      hrefs \in SeqsOf(FieldPageHrefs, 1, MaxAnchors),
      dropped \in 0 .. MaxAnchors }

\* The children of the base page's cells: a heading, or an anchor of a
\* country 1 or 2, of a field 1 or 2, or of neither.
BasePageElements ==
  { [tag |-> "h2", href |-> <<>>] }
  \cup { [tag |-> "a", href |-> h] :
           h \in { <<COUNTRY_URL_FRAGMENT, "1">>, <<COUNTRY_URL_FRAGMENT, "2">>,
                   <<FIELD_URL_FRAGMENT, "1">>, <<FIELD_URL_FRAGMENT, "2">>, <<>> } }

\* the cells of a page whose first cell has the first split elements
CellsOf(els, split) ==
  IF split >= Len(els) THEN <<els>>
  ELSE <<SubSeq(els, 1, split), SubSeq(els, split + 1, Len(els))>>

\* The Czech page has the elements of the English one, translated, but for
\* the dropped one, and a heading more when extra.
BasePages ==
  { [kind |-> "base",
     en |-> CellsOf([i \in DOMAIN els |-> [tag |-> els[i].tag, href |-> els[i].href,
                                              text |-> EnText(i)]], split),
     cs |-> << Without([i \in DOMAIN els |-> [tag |-> els[i].tag, href |-> els[i].href,
                                                text |-> CsText(i)]], dropped)
               \o (IF extra THEN << [tag |-> "h2", href |-> <<>>, text |-> CsText(Len(els) + 1)] >>
                   ELSE <<>>) >>] :
      els \in SeqsOf(BasePageElements, 1, MaxElements),
      split \in 1 .. MaxElements,
      dropped \in 0 .. MaxElements,
      extra \in BOOLEAN }

\* the listing pages
Labels == { <<"Year">>, <<"Location">>, <<"Student">>, <<"University">>, <<"Specialization">> }
\* a label that holds two of the words looked for
UniversityOfStudent == <<"University", " ", "of", " ", "student">>

\* The header rows: the five labels in any order, any four of them, or
\* "University of student" in the place of "University".
LabelSets ==
  { Labels } \cup { Labels \ {l} : l \in Labels }
  \cup { (Labels \ {<<"University">>}) \cup {UniversityOfStudent} }
Headers ==
  UNION { { h \in [1 .. Cardinality(ls) -> ls] : \A i, j \in DOMAIN h : h[i] = h[j] => i = j }
          : ls \in LabelSets }

\* what a report has in the listing: its id (none: a row with no anchor)
\* and the texts of its columns
Reports ==
  { [ id |-> <<"1", "2">>, year |-> <<"2", "0", "1", "9">>, location |-> <<"Berlin">>,
      student |-> <<"Novak", ",", " ", "Jan">>, university |-> <<"CTU">>,
      universityCs |-> <<"CVUT">>, czIcon |-> TRUE, thumb |-> Some(<<"/thumb/12.jpg">>) ],
    [ id |-> <<"1", "2", "3">>, year |-> <<"2", "0", "2", "0">>, location |-> <<"Wien">>,
      student |-> <<"Svoboda", ",", "Eva">>, university |-> <<"MU">>,
      universityCs |-> <<"MUNI">>, czIcon |-> FALSE, thumb |-> Undefined ],
    [ id |-> <<>>, year |-> <<"2", "0", "2", "1">>, location |-> <<"Oslo">>,
      student |-> <<"Dvorak">>, university |-> <<>>,
      universityCs |-> <<>>, czIcon |-> FALSE, thumb |-> Undefined ] }

\* the cell a report has under a label
CellOf(report, label, lang) ==
  CASE label = <<"Year">> -> [text |-> report.year, anchors |-> <<>>]
    [] label = <<"Location">> ->
         [text |-> <<" ">> \o report.location,
          anchors |-> IF report.id = <<>> THEN <<>>
                      ELSE << [href |-> <<"?page=student_report", REVIEW_ID_URL_FRAGMENT>>
                                          \o report.id] >>]
    [] label = <<"Student">> -> [text |-> report.student, anchors |-> <<>>]
    [] label \in { <<"University">>, UniversityOfStudent } ->
         [text |-> IF lang = LANG_CZECH THEN report.universityCs ELSE report.university,
          anchors |-> <<>>]
    [] OTHER -> [text |-> <<"IT">>, anchors |-> <<>>]

TableOf(header, reports, lang) ==
  << [cells |-> [i \in DOMAIN header |-> [text |-> header[i], anchors |-> <<>>]],
      czIcon |-> FALSE, thumb |-> Undefined] >>
  \o [r \in DOMAIN reports |->
        [cells |-> [i \in DOMAIN header |-> CellOf(reports[r], header[i], lang)],
         czIcon |-> reports[r].czIcon, thumb |-> reports[r].thumb]]

\* The Czech table has the rows of the English one but for the dropped one;
\* a page may also have no table at all.
ListingPages ==
  { [kind |-> "listing", en |-> TableOf(header, reports, LANG_ENGLISH),
     cs |-> TableOf(header, Without(reports, dropped), LANG_CZECH)] :
      header \in Headers,
      reports \in SeqsOf(Reports, 0, MaxRows),
      dropped \in 0 .. MaxRows }
  \cup { [kind |-> "listing", en |-> <<>>, cs |-> <<>>] }

\* ------------------------------------------------ the readers, one page
IdleParse ==
  /\ page = <<>>
  /\ parsed = Undefined

InitParse ==
  /\ \/ page \in FieldPages
     \/ page \in BasePages
     \/ page \in ListingPages
  /\ parsed = Undefined

ReadSpecializations ==
  /\ parsed = Undefined
  /\ page.kind = "field"
  /\ parsed' = Some(getSpecializationsOfField(page.fieldId, page.en, page.cs))
  /\ UNCHANGED page
  /\ UNCHANGED <<varsDump, varsFetch, varsPool, varsServe>>

ReadBaseCategories ==
  /\ parsed = Undefined
  /\ page.kind = "base"
  /\ parsed' = Some(getBaseCategories(page.en, page.cs))
  /\ UNCHANGED page
  /\ UNCHANGED <<varsDump, varsFetch, varsPool, varsServe>>

ReadListing ==
  /\ parsed = Undefined
  /\ page.kind = "listing"
  /\ parsed' = Some(sublistToReviewEntries(page.en, page.cs))
  /\ UNCHANGED page
  /\ UNCHANGED <<varsDump, varsFetch, varsPool, varsServe>>

NextParse ==
  \/ ReadSpecializations
  \/ ReadBaseCategories
  \/ ReadListing

\* ------------------------------------------------------------ serve.ts
\* What a call of getDataDump() comes to (Spec has it step by step): it
\* resolves with the whole dataset; it resolves with a dataset that lacks what
\* the failed tasks of its pools would have added; or it rejects, when
\* getBaseCategories(), which runs outside the pools, fails.
Scrapes == 1 .. MaxScrapes
Snapshot(k, partial) == [scrape |-> k, partial |-> partial]
NOT_FETCHED_YET == [error |-> "The server has not fetched the data yet, try again in a minute or two."]

\* if (!data): an AllReviewData object is never falsy
DataMissing(d) == d = Undefined

\* the response serve() sends for one request
ResponseTo(d) ==
  IF DataMissing(d) THEN [status |-> 500, payload |-> Some(NOT_FETCHED_YET)]
  ELSE [status |-> 200, payload |-> d]

IdleServe ==
  /\ data = Undefined
  /\ sUp = FALSE
  /\ sStarted = 0
  /\ sRunning = {}
  /\ sCompleted = 0
  /\ sLastGood = 0
  /\ sSending = <<>>
  /\ sResponses = <<>>

\* the module has run to its for await: fetchData() was called once and
\* the timer is set
InitServe ==
  /\ data = Undefined
  /\ sUp = TRUE
  /\ sStarted = 1
  /\ sRunning = {1}
  /\ sCompleted = 0
  /\ sLastGood = 0
  /\ sSending = <<>>
  /\ sResponses = <<>>

\* setInterval(fetchData, 12 * hour) fires: another getDataDump() starts,
\* whether or not an earlier one is still running
ServeTimer ==
  /\ sUp
  /\ sStarted < MaxScrapes
  /\ sStarted' = sStarted + 1
  /\ sRunning' = sRunning \cup {sStarted + 1}
  /\ UNCHANGED <<data, sUp, sCompleted, sLastGood, sSending, sResponses>>
  /\ UNCHANGED <<varsDump, varsFetch, varsPool, varsParse>>

\* data = await getDataDump(), the call k resolving
DumpResolves(k, partial) ==
  /\ sUp
  /\ k \in sRunning
  /\ data' = Some(Snapshot(k, partial))
  /\ sRunning' = sRunning \ {k}
  /\ sCompleted' = sCompleted + 1
  /\ sLastGood' = IF partial THEN sLastGood ELSE k
  /\ UNCHANGED <<sUp, sStarted, sSending, sResponses>>
  /\ UNCHANGED <<varsDump, varsFetch, varsPool, varsParse>>

\* the call k rejecting: fetchData's promise rejects, nothing handles it, and
\* the runtime ends the process on the unhandled rejection
DumpRejects(k) ==
  /\ sUp
  /\ k \in sRunning
  /\ sRunning' = sRunning \ {k}
  /\ sUp' = FALSE
  /\ UNCHANGED <<data, sStarted, sCompleted, sLastGood, sSending, sResponses>>
  /\ UNCHANGED <<varsDump, varsFetch, varsPool, varsParse>>

\* serve() takes one request event: respond() builds the response from data as
\* it is now and hands it to event.respondWith(), whose promise it drops
ServeRequest ==
  /\ sUp
  /\ Len(sSending) + Len(sResponses) < MaxRequests
  /\ sSending' = Append(sSending,
                   [response |-> ResponseTo(data), completed |-> sCompleted,
                    lastGood |-> sLastGood])
  /\ UNCHANGED <<data, sUp, sStarted, sRunning, sCompleted, sLastGood, sResponses>>
  /\ UNCHANGED <<varsDump, varsFetch, varsPool, varsParse>>

\* the promise of respondWith() resolves: the response i has been sent
RespondResolves(i) ==
  /\ sUp
  /\ i \in DOMAIN sSending
  /\ sResponses' = Append(sResponses, sSending[i])
  /\ sSending' = Without(sSending, i)
  /\ UNCHANGED <<data, sUp, sStarted, sRunning, sCompleted, sLastGood>>
  /\ UNCHANGED <<varsDump, varsFetch, varsPool, varsParse>>

\* the promise of respondWith() rejects (the response i could not be sent, as
\* when the client has closed the connection): nothing handles the rejection,
\* and the runtime ends the process
RespondRejects(i) ==
  /\ sUp
  /\ i \in DOMAIN sSending
  /\ sSending' = Without(sSending, i)
  /\ sUp' = FALSE
  /\ UNCHANGED <<data, sStarted, sRunning, sCompleted, sLastGood, sResponses>>
  /\ UNCHANGED <<varsDump, varsFetch, varsPool, varsParse>>

\* an iteration throws, the listener's (line 22) or that of a connection's
\* requests (line 27) (a reset connection, a malformed request, no file
\* descriptor left): the top-level for await has no try, and serve(conn) is
\* called with neither await nor catch and has no try of its own, so the error
\* is handled nowhere and the runtime ends the process; scrapes that run and
\* responses being sent are left as they are
IterationThrows(at) ==
  /\ sUp
  /\ at \in {"listener", "connection"}
  /\ sUp' = FALSE
  /\ UNCHANGED <<data, sStarted, sRunning, sCompleted, sLastGood, sSending, sResponses>>
  /\ UNCHANGED <<varsDump, varsFetch, varsPool, varsParse>>

NextServe ==
  \/ ServeTimer
  \/ \E k \in Scrapes, partial \in BOOLEAN : DumpResolves(k, partial)
  \/ \E k \in Scrapes : DumpRejects(k)
  \/ ServeRequest
  \/ \E i \in 1 .. MaxRequests : RespondResolves(i)
  \/ \E i \in 1 .. MaxRequests : RespondRejects(i)
  \/ \E at \in {"listener", "connection"} : IterationThrows(at)

InitPoolOnly == IdleDump /\ IdleFetch /\ InitPool /\ IdleServe /\ IdleParse
SpecPool == InitPoolOnly /\ [][NextPool]_vars

InitFetch == IdleDump /\ IdleFetch /\ IdlePool /\ IdleServe /\ IdleParse
SpecFetch == InitFetch /\ [][NextFetch]_vars

Init == InitDump /\ IdleFetch /\ IdlePool /\ IdleServe /\ IdleParse
Next == NextDump
Spec == Init /\ [][Next]_vars

InitServeOnly == IdleDump /\ IdleFetch /\ IdlePool /\ InitServe /\ IdleParse
SpecServe == InitServeOnly /\ [][NextServe]_vars

InitParseOnly == IdleDump /\ IdleFetch /\ IdlePool /\ IdleServe /\ InitParse
SpecParse == InitParseOnly /\ [][NextParse]_vars

\* ======================================================== the claims
CountryStarted == \E i \in DOMAIN countryPc : countryPc[i] # "queued"
TablesWritten ==
  \/ reviewIdToFieldId' # reviewIdToFieldId
  \/ specializationNameToId' # specializationNameToId
\* the fields under which the site lists the review id
FieldsListing(id) ==
  { f \in FieldIds : \E k \in DOMAIN site.fieldEntries[f] : site.fieldEntries[f][k] = id }

\* C1: when a fetch has failed fatally inside a pooled field, country or
\* per-entry task, getDataDump() does not return a dataset (its promise rejects).
C1_FatalFetchRejects == fatal => pc # "returned"

\* C2: every Review of a returned dataset has a defined fieldId.
C2_FieldIdDefined ==
  pc = "returned" => \A k \in DOMAIN reviews : IsDefined(reviews[k].fieldId)

\* C3: no two Reviews of a returned dataset have the same id.
C3_ReviewsDeduplicated ==
  pc = "returned" =>
    \A k, l \in DOMAIN reviews : k # l => reviews[k].id # reviews[l].id

\* C4: when two fields each have a specialization of the same name, a review
\* listed under one field never gets the id of a specialization that is the
\* other field's and not its own field's.
C4_SpecializationOfOwnField ==
  \A k \in DOMAIN reviews : \A f \in FieldsListing(reviews[k].id) :
    \A s \in reviews[k].specializationId :
      \E n \in DOMAIN site.fieldSpecs[f] : site.fieldSpecs[f][n].id = s

\* C5: the field phase and the country phase are strictly sequential: no
\* country task has started and neither table has been read while a field task
\* is unsettled, and no step writes a table once a country task has started.
C5_PhasesSequential ==
  /\ [](CountryStarted => Settled(fieldPc))
  /\ [](tablesRead => Settled(fieldPc))
  /\ [][TablesWritten => ~CountryStarted]_vars

\* C5's case: both tables were written, a country task has read them.
C5_Witness ==
  /\ tablesRead
  /\ reviewIdToFieldId # EmptyMap
  /\ specializationNameToId # EmptyMap
  /\ pc = "returned"

\* C6: never more than MAX_CONCURRENT_REQUESTS requests are out: at most 32
\* field tasks of one request each, and at most MAX_CONCURRENT_COUNTRIES
\* country tasks of at most 32 / 4 = 8 detail requests each.
C6_RequestsBounded ==
  /\ Outstanding <= MAX_CONCURRENT_REQUESTS
  /\ pFieldsAt[LANG_ENGLISH] + pFieldsAt[LANG_CZECH] <= MAX_CONCURRENT_REQUESTS
  /\ BagCardinality(pCountriesAt) <= MAX_CONCURRENT_COUNTRIES
  /\ \A task \in BagToSet(pCountriesAt) :
       RequestsOf(task) <= MAX_CONCURRENT_REQUESTS \div MAX_CONCURRENT_COUNTRIES

\* C6's case: both pools of the country phase are full, with more queued.
C6_Witness ==
  /\ pPhase = "countries"
  /\ Outstanding = MAX_CONCURRENT_REQUESTS
  /\ pCountriesQueued > 0
  /\ \E task \in BagToSet(pCountriesAt) : task.queued > 0

AllNotOk == \A k \in DOMAIN fResponses : ~Ok(fResponses[k])

\* C7 as claimed: one call issues at most 5 GETs, and fails when every one of
\* them got a response that is not ok.
C7_AtMostFiveAttempts ==
  /\ fAttempts <= 5
  /\ (Len(fResponses) = 5 /\ AllNotOk) => fState = "threw"

\* C7 as amended: one call issues at most 6 GETs (the first and
\* DEFAULT_RETRIES retries), and fails, returning no document, when every one
\* of the 6 got a response that is not ok.
C7_AtMostSixAttempts ==
  /\ fAttempts <= DEFAULT_RETRIES + 1
  /\ (Len(fResponses) = DEFAULT_RETRIES + 1 /\ AllNotOk) =>
       (fState = "threw" /\ fResult = Undefined)

\* C7's case: six GETs, each answered 503, and the call has thrown.
C7_Witness ==
  /\ fAttempts = 6
  /\ Len(fResponses) = 6
  /\ \A k \in DOMAIN fResponses : fResponses[k].status = 503
  /\ fState = "threw"

FourTimes503Then200 ==
  /\ Len(fResponses) = 5
  /\ \A k \in 1 .. 4 : fResponses[k].status = 503
  /\ fResponses[5].status = 200
  /\ IsDefined(fResponses[5].doc)

\* C8: a call answered 503 four times and 200 the fifth time returns the parsed
\* document, has waited less than 66 s in all, and issues no further GET.
C8_FifthAttemptSucceeds ==
  /\ [](FourTimes503Then200 =>
          /\ fState = "returned"
          /\ fResult = fResponses[5].doc
          /\ fWaited < 66000
          /\ fAttempts = 5)
  /\ [][(fState = "returned" /\ fCalls' = fCalls) => fAttempts' = fAttempts]_vars

\* C8's case: the call has got its fifth response, a 200, after four 503.
C8_Witness == FourTimes503Then200 /\ fState = "returned"

\* C9: a call whose cache holds the url returns that entry and issues no
\* request; no request is out while the cache holds the url; and a document
\* that was fetched is in the cache under the url when it is returned.
C9_CacheShortCircuits ==
  /\ [][(fCalls' # fCalls /\ IsDefined(CacheGet(fCache, fUseCache', fUrl'))) =>
          /\ fAttempts' = 0
          /\ fState' = "returned"
          /\ fResult' = MapGet(fCache, fUrl')
          /\ fCache' = fCache]_vars
  /\ []((fUseCache /\ fState \in {"requesting", "reading"}) =>
          ~IsDefined(MapGet(fCache, fUrl)))
  /\ []((fUseCache /\ fState = "returned") =>
          (IsDefined(fResult) /\ MapGet(fCache, fUrl) = fResult))

\* C9's case: the second call, with the cache the first one filled, has
\* returned the document without a request.
C9_Witness ==
  /\ fCalls = 2
  /\ fUseCache
  /\ fState = "returned"
  /\ fAttempts = 0
  /\ MapGet(fCache, fUrl) = fResult

\* C10: a detail page with fewer than NUM_BODY_BLOCKS body blocks makes
\* getReviewContent fail: no content of such a page is returned, and no Review
\* holds an undefined section.
C10_TruncatedPageFails ==
  site.bodies < NUM_BODY_BLOCKS =>
    /\ \A i \in DOMAIN reviewData : reviewData[i] = <<>>
    /\ \A k \in DOMAIN reviews :
         /\ IsDefined(reviews[k].otherWebsites)
         /\ \A b \in DOMAIN reviews[k].texts : IsDefined(reviews[k].texts[b])

\* C11: while no getDataDump() has resolved the server is answering, and what
\* it answers is status 500 with the {error} payload: every request taken
\* before the first getDataDump() resolved was given that response; a response
\* of status 200 carries the snapshot and goes only to a request taken after a
\* getDataDump() has resolved.
C11_AnsweredBeforeAndAfterFirstScrape ==
  /\ sCompleted = 0 =>
       /\ sUp
       /\ ResponseTo(data) = [status |-> 500, payload |-> Some(NOT_FETCHED_YET)]
  /\ \A i \in DOMAIN sResponses :
       LET r == sResponses[i] IN
         /\ r.completed = 0 => r.response = [status |-> 500, payload |-> Some(NOT_FETCHED_YET)]
         /\ r.response.status = 200 =>
              /\ r.completed > 0
              /\ \E k \in Scrapes, partial \in BOOLEAN :
                   r.response.payload = Some(Snapshot(k, partial))
         /\ r.response.status \in {200, 500}

\* C12: once a getDataDump() has resolved with nothing lost, data (what the
\* requests receive) is the snapshot of the last such call: a refresh that
\* lost a fetch for good does not replace it.
C12_SnapshotOnlyFromSuccess ==
  (sUp /\ sLastGood # 0) => data = Some(Snapshot(sLastGood, FALSE))

\* ---- the readers of one page
Parsed == CHOOSE r \in parsed : TRUE
Read(kind) == page.kind = kind /\ parsed # Undefined
Members(seq) == { seq[i] : i \in DOMAIN seq }
EnglishAnchors == Members(Filter(Flatten(page.en), IsAnchor))
CzechAnchors == Members(Filter(Flatten(page.cs), IsAnchor))
CountriesOf(categories) ==
  UNION { Members(categories[c].countries) : c \in DOMAIN categories }

\* C13: sublistToReviewEntries returns as many entries as the English table
\* has rows, less the header row (none for a page with no row at all).
C13_OneEntryPerDataRow ==
  Read("listing") =>
    Len(Parsed) = (IF page.en = <<>> THEN 0 ELSE Len(page.en) - 1)

\* C13: a table of a header and two rows, one of them with no review id, read
C13_Witness ==
  /\ Read("listing")
  /\ Len(page.en) = 3
  /\ Len(Parsed) = 2
  /\ \E r \in DOMAIN Parsed : Parsed[r].id = -1

\* C14: every Country, Field and Specialization returned has the non-negative
\* id of an English anchor's hyperlink, so an anchor with no id of the kind is
\* in no output, nor is the id -1.
C14_IdsFromHyperlinks ==
  /\ (Read("base") /\ ~Parsed.threw) =>
       /\ \A c \in CountriesOf(Parsed.countryCategories) :
            /\ c.id \in Nat
            /\ \E a \in EnglishAnchors : IdIn(a.href, COUNTRY_URL_FRAGMENT) = c.id
       /\ \A f \in Members(Parsed.fields) :
            /\ f.id \in Nat
            /\ \E a \in EnglishAnchors : IdIn(a.href, FIELD_URL_FRAGMENT) = f.id
  /\ Read("field") =>
       \A sp \in Members(Parsed) :
         /\ sp.id \in Nat
         /\ \E i \in DOMAIN page.en : IdIn(page.en[i].href, SPECIALIZATION_URL_FRAGMENT) = sp.id

\* C14: a page with an anchor of no id read, and something returned
C14_Witness ==
  \/ /\ Read("field")
     /\ \E i \in DOMAIN page.en :
          /\ SelectField(page.en[i], page.fieldId)
          /\ IdIn(page.en[i].href, SPECIALIZATION_URL_FRAGMENT) = -1
     /\ Parsed # <<>>
  \/ /\ Read("base")
     /\ ~Parsed.threw
     /\ \E a \in EnglishAnchors : a.href = <<>>
     /\ CountriesOf(Parsed.countryCategories) # {}
     /\ Parsed.fields # <<>>

\* C15: the name of every country, field and specialization has for en the
\* text of an English element of its id, for cs the text of a Czech element
\* of its id when there is one, and the empty string when there is none.
NameJoined(name, id, fragment, enAnchors, csAnchors) ==
  /\ \E a \in enAnchors : IdIn(a.href, fragment) = id /\ name.en = Trim(a.text)
  /\ IF \E a \in csAnchors : IdIn(a.href, fragment) = id
     THEN \E a \in csAnchors : IdIn(a.href, fragment) = id /\ name.cs = Trim(a.text)
     ELSE name.cs = <<>>
C15_NamesJoinedById ==
  /\ (Read("base") /\ ~Parsed.threw) =>
       /\ \A c \in CountriesOf(Parsed.countryCategories) :
            NameJoined(c.name, c.id, COUNTRY_URL_FRAGMENT, EnglishAnchors, CzechAnchors)
       /\ \A f \in Members(Parsed.fields) :
            NameJoined(f.name, f.id, FIELD_URL_FRAGMENT, EnglishAnchors, CzechAnchors)
  /\ Read("field") =>
       \A sp \in Members(Parsed) :
         NameJoined(sp.name, sp.id, SPECIALIZATION_URL_FRAGMENT,
                    { a \in Members(page.en) : SelectField(a, page.fieldId) },
                    { a \in Members(page.cs) : SelectField(a, page.fieldId) })

\* C16: the columns of a listing table (of the Czech one alike) exchanged
ExchangeColumns(table, i, j) ==
  [r \in DOMAIN table |->
     [table[r] EXCEPT !.cells = [k \in DOMAIN @ |->
                                   IF k = i THEN @[j] ELSE IF k = j THEN @[i] ELSE @[k]]]]
\* the values the claim is about
ValuesOf(entries) ==
  [r \in DOMAIN entries |->
     <<entries[r].year, entries[r].location, entries[r].student,
       entries[r].university, entries[r].id>>]
SameInAnyColumnOrder ==
  \A i, j \in DOMAIN page.en[1].cells :
    i < j =>
    ValuesOf(sublistToReviewEntries(ExchangeColumns(page.en, i, j),
                                    ExchangeColumns(page.cs, i, j)))
      = ValuesOf(Parsed)
\* no two labels of the header hold the same word looked for
LabelsTellColumnsApart ==
  \A str \in {"year", "location", "student", "university"} :
    Cardinality({ i \in DOMAIN page.en[1].cells :
                    includes(toLowerCase(Trim(page.en[1].cells[i].text)), str) }) <= 1

\* C16 (as stated): any two columns of a listing table exchanged, header and
\* body alike, sublistToReviewEntries returns the same year, location,
\* student, university and id for every row.
C16_SameValuesInAnyColumnOrder ==
  (Read("listing") /\ page.en # <<>>) => SameInAnyColumnOrder

\* C16 (amended): the same, for a header in which each of the words year,
\* location, student and university is held by one label at most.
C16_SameValuesWhenLabelsDiffer ==
  (Read("listing") /\ page.en # <<>> /\ LabelsTellColumnsApart) => SameInAnyColumnOrder

\* C16: a table of the five labels, not in the order year, location, student,
\* university, with two rows, read
C16_Witness ==
  /\ Read("listing")
  /\ Len(page.en) = 3
  /\ Len(page.en[1].cells) = 5
  /\ LabelsTellColumnsApart
  /\ page.en[1].cells[1].text = <<"University">>
  /\ page.en[1].cells[5].text = <<"Year">>
  /\ \E r \in DOMAIN Parsed : Parsed[r].year = 2019 /\ Parsed[r].id = 12

\* C17: a listing table whose header has no label for year, location,
\* student or university gives no entries.
C17_MissingColumnFaults ==
  ( /\ Read("listing")
    /\ page.en # <<>>
    /\ \E str \in {"year", "location", "student", "university"} :
         \A i \in DOMAIN page.en[1].cells :
           ~includes(toLowerCase(Trim(page.en[1].cells[i].text)), str) )
  => Parsed = <<>>

\* C18: no ReviewEntry returned by sublistToReviewEntries has the id -1.
C18_NoEntryWithoutId ==
  Read("listing") => \A r \in DOMAIN Parsed : Parsed[r].id # -1

\* C19: the fields returned by getBaseCategories are one Field for every
\* field id of an English anchor: no two of them share an id.
C19_OneFieldPerId ==
  (Read("base") /\ ~Parsed.threw) =>
    /\ \A i, j \in DOMAIN Parsed.fields :
         Parsed.fields[i].id = Parsed.fields[j].id => i = j
    /\ { Parsed.fields[i].id : i \in DOMAIN Parsed.fields }
         = { IdIn(a.href, FIELD_URL_FRAGMENT) : a \in EnglishAnchors } \ {-1}

\* C19: a base page with three anchors of two field ids read
C19_Witness ==
  /\ Read("base")
  /\ ~Parsed.threw
  /\ Len(Filter(Flatten(page.en), IsAnchor)) = 3
  /\ \A a \in EnglishAnchors : IdIn(a.href, FIELD_URL_FRAGMENT) # -1
  /\ Len(Parsed.fields) = 2

\* C20: every Specialization returned by getSpecializationsOfField(fieldId)
\* is that of an anchor whose hyperlink has the field fieldId, the whole
\* number, and a specialization.
C20_SpecializationOfThatField ==
  Read("field") =>
    \A sp \in Members(Parsed) :
      \E i \in DOMAIN page.en :
        /\ IdIn(page.en[i].href, FIELD_URL_FRAGMENT) = page.fieldId
        /\ IdIn(page.en[i].href, SPECIALIZATION_URL_FRAGMENT) = sp.id

\* C21: the university.cs of every ReviewEntry with a university is the
\* university cell of a Czech row that has an anchor of the entry's very id,
\* and the empty string when the Czech table has no such row.
C21_CzechUniversityOfSameId ==
  (Read("listing") /\ page.en # <<>>) =>
    LET headers == [i \in DOMAIN page.en[1].cells |->
                      toLowerCase(textOf(Some(page.en[1].cells[i])))]
        csRows == Shift(page.cs)
        rowsOf(id) == { i \in DOMAIN csRows :
                          \E k \in DOMAIN AnchorsOfRow(csRows[i]) :
                            IdIn(AnchorsOfRow(csRows[i])[k].href, REVIEW_ID_URL_FRAGMENT) = id }
    IN \A r \in DOMAIN Parsed :
         (Parsed[r].university # Undefined /\ Parsed[r].id # -1) =>
           LET cs == (CHOOSE u \in Parsed[r].university : TRUE).cs
           IN IF rowsOf(Parsed[r].id) = {} THEN cs = <<>>
              ELSE \E i \in rowsOf(Parsed[r].id) :
                     cs = textOf(getColumn(csRows[i], findColumn(headers, "university")))

\* C25: the countries of every category returned by getBaseCategories are the
\* English anchors with a country id that follow the category's heading, up
\* to the next heading, in the order of the document, whatever cells they
\* lie in.
AnchorsAfterHeadings == Cats(<<Flatten(page.en)>>, <<>>)
C25_CountriesFollowTheirHeading ==
  (Read("base") /\ ~Parsed.threw) =>
    /\ Len(Parsed.countryCategories) = Len(AnchorsAfterHeadings)
    /\ \A c \in DOMAIN Parsed.countryCategories :
         [k \in DOMAIN Parsed.countryCategories[c].countries |->
            Parsed.countryCategories[c].countries[k].id]
         = [k \in DOMAIN AnchorsAfterHeadings[c].countries |->
              AnchorsAfterHeadings[c].countries[k].id]

\* C28: urlToDocument changes the cache in one step only, the one in which the
\* body of a successful response has been read and parsed and is returned, and then
\* by setting the url to that document: a response that is not successful, a
\* body that does not parse, a rejected request, a wait and the final failure
\* leave the cache as it was.
C28_CacheWrittenOnSuccessOnly ==
  [][ fCache' # fCache =>
        /\ fState = "reading"
        /\ fState' = "returned"
        /\ fUseCache
        /\ LET response == fResponses'[Len(fResponses')]
           IN /\ response.status \in 200 .. 299
              /\ response.doc # Undefined
              /\ fCache' = MapSet(fCache, fUrl, CHOOSE d \in response.doc : TRUE) ]_vars

\* C28: a call given a cache that holds a document has failed for good, after
\* responses that were not successful and one whose body did not parse
C28_Witness ==
  /\ fState = "threw"
  /\ fUseCache
  /\ fCache # EmptyMap
  /\ fUrl \notin DOMAIN fCache
  /\ Len(fResponses) = DEFAULT_RETRIES + 1
  /\ \E i \in DOMAIN fResponses : fResponses[i].status = 503
  /\ \E i \in DOMAIN fResponses : fResponses[i].status = 200 /\ fResponses[i].doc = Undefined

\* C30: once a request has been answered with 200, the server goes on
\* answering and the response to a request is 200 (data is not undefined),
\* whatever the later refreshes do: resolve, reject or still run.
C30_AnsweredWith200EverAfter ==
  (\E i \in DOMAIN sResponses : sResponses[i].response.status = 200) =>
    /\ sUp
    /\ ResponseTo(data).status = 200

\* ---- the tasks of getDataDump
EntryReadRunning(i) == fieldPc[i] = "entries"
SpecializationReadStarted(i) == fieldPc[i] = "specializations"

\* C22: in a field's task the specialization read is started without waiting
\* for the review-entry read: while the entry read runs, the specialization
\* read has been started too.
C22_FieldReadsConcurrent ==
  \A i \in DOMAIN fieldPc : EntryReadRunning(i) => SpecializationReadStarted(i)

\* C27: in a returned dataset every entry of a country's listing has given one
\* Review: a country task whose listing was read pushed as many reviews as the
\* listing has entries.
C27_OneReviewPerListedEntry ==
  pc = "returned" =>
    \A i \in DOMAIN countryPc :
      countryPc[i] = "done" =>
        /\ Len(reviewData[i]) = Len(reviewEntries[i])
        /\ \A j \in DOMAIN reviewEntries[i] :
             \E k \in DOMAIN reviews :
               /\ reviews[k].id = reviewEntries[i][j].id
               /\ reviews[k].countryId = countries[i]

\* the name table built from the specializations taken field by field, in
\* the order of baseCategories.fields
SpecializationsInFieldOrder ==
  Flatten([i \in DOMAIN fields |-> SpecializationsOfField(fields[i])])
NameToIdInFieldOrder == SetNamesOfSpecializations(EmptyMap, SpecializationsInFieldOrder)

\* C26: with every fetch succeeding and every page complete, the reviews
\* returned are the same records whatever order the tasks completed in: each
\* has the specializationId it has when the field tasks complete in the order
\* of the fields.
C26_SameReviewsInAnyCompletionOrder ==
  (pc = "returned" /\ ~fatal /\ site.bodies = NUM_BODY_BLOCKS) =>
    \A k \in DOMAIN reviews :
      reviews[k].specializationId =
        MapGet(NameToIdInFieldOrder, site.specializationName[reviews[k].id])

\* C29: the name table never maps the empty string to an id, so a review
\* whose detail page gives an empty specialization name is returned with
\* specializationId undefined.
C29_EmptyNameHasNoSpecialization ==
  /\ pc \in {"countries", "returned"} => "" \notin DOMAIN specializationNameToId
  /\ \A k \in DOMAIN reviews :
       site.specializationName[reviews[k].id] = "" =>
         reviews[k].specializationId = Undefined

\* C23: the cache of a field's task holds urls of that field only, each
\* written by one successful GET of that task: no url has been fetched twice
\* by the task, and the cache holds exactly the urls the task has fetched.
C23_OneGetPerUrlOfAFieldTask ==
  \A i \in DOMAIN fieldGets :
    /\ \A u \in DOMAIN fieldGets[i] : fieldGets[i][u] <= 1
    /\ DOMAIN fieldGets[i] = fieldCache[i]
    /\ fieldCache[i] \subseteq BothLanguages(fields[i])

\* C23: a field's task has finished both its reads, the second through the
\* cache the first one filled, with one GET of each of its two urls
C23_Witness ==
  \E i \in DOMAIN fieldPc :
    /\ fieldPc[i] = "done"
    /\ fieldCache[i] = BothLanguages(fields[i])
    /\ \A u \in BothLanguages(fields[i]) : fieldGets[i][u] = 1
    /\ \E j \in DOMAIN fieldPc : j # i /\ fieldCache[j] # {} /\ fieldCache[j] # fieldCache[i]

\* ---- the pools, tasks counted
FieldsRunning == pFieldsAt[LANG_ENGLISH] + pFieldsAt[LANG_CZECH]
InnerPoolsFull ==
  \A task \in BagToSet(pCountriesAt) :
    (task.stage = "details" /\ task.queued > 0) => task.active = InnerConcurrency

\* C24: a failed task does not stop its pool: while items of a pool are
\* queued, as many tasks run as the pool allows (the failed task's place is
\* taken by the next item), and getDataDump() goes on to the next phase only
\* when no item of the pool is queued or running.
C24_SiblingsStillStarted ==
  /\ (pPhase = "fields" /\ pFieldsQueued > 0) => FieldsRunning = MAX_CONCURRENT_REQUESTS
  /\ (pPhase = "countries" /\ pCountriesQueued > 0) =>
       BagCardinality(pCountriesAt) = MAX_CONCURRENT_COUNTRIES
  /\ pPhase = "countries" => (InnerPoolsFull /\ pFieldsQueued = 0 /\ FieldsRunning = 0)
  /\ pPhase = "returned" => (pCountriesQueued = 0 /\ pCountriesAt = EmptyBag)

\* C24: tasks have failed, a queued item was started in the place of a failed
\* one, and both pools have run every item to its end
C24_Witness ==
  /\ pStartedAfterFailure
  /\ pPhase = "returned"

=============================================================================
